---- MODULE Spec2Model ----
(***************************************************************************)
(* EcoCampus: DataProcessor.merge_consumption_with_static                  *)
(* (src/data_processor.py).  The consumption (electricity) table and the   *)
(* building (static) table are sequences of rows; a call filters the       *)
(* consumption rows by the year scope, aggregates them per project_name,   *)
(* left-joins the aggregate onto the building rows, derives the two        *)
(* efficiency ratios and zero-fills the total.                             *)
(*                                                                         *)
(* Float cells are extended rationals <<n, d>> in lowest terms:            *)
(* <<n, 1>> is the number n, <<0, 0>> is NaN, <<1, 0>> and <<-1, 0>> are   *)
(* +inf and -inf.  Python strings that the code parses are sequences of    *)
(* characters.                                                             *)
(***************************************************************************)
EXTENDS Integers, Sequences, FiniteSets, TLC

VARIABLES electricity_df, static_df, selected_year, merged_df, pc,
          session, calls, schema, charts, loader, dash

\* One call of merge_consumption_with_static: its arguments, its result and
\* the caller's position.
mergeVars == <<electricity_df, static_df, selected_year, merged_df, pc>>

\* What the other parts of the program hold: a session's history of calls,
\* two calls in progress, the tables' columns and the call's outcome, the
\* figures built from a Merged table, the building loader, the dashboard.
otherVars == <<session, calls, schema, charts, loader, dash>>

vars == <<mergeVars, otherVars>>

\* The value of a part that a specification does not exercise.
NotRunning == << >>

(***************************************************************************)
(* Bounds of the model.                                                    *)
(***************************************************************************)
\* Rows of the consumption table and of the building table, and of both.
MaxElecRows == 2
MaxStaticRows == 2
MaxRows == 3

(***************************************************************************)
(* Float cells.                                                            *)
(***************************************************************************)
NaN == <<0, 0>>
Inf == <<1, 0>>
NegInf == <<-1, 0>>
Num(n) == <<n, 1>>

Abs(n) == IF n < 0 THEN -n ELSE n

RECURSIVE GCD(_, _)
GCD(a, b) == IF b = 0 THEN a ELSE GCD(b, a % b)

\* The rational n/d (d # 0) in lowest terms with a positive denominator.
Reduce(n, d) ==
    LET g == GCD(Abs(n), Abs(d))
        s == IF d < 0 THEN -1 ELSE 1
    IN  <<(s * n) \div g, (s * d) \div g>>

\* Series.notna()
notna(x) == x # NaN

\* Mutant of GtZero: the guard written >= 0.
GeZero(x) == x # NaN /\ x[1] >= 0

\* Series > 0 : a comparison with NaN is False.
GtZero(x) == notna(x) /\ x[1] > 0

\* The value that stands for an exception raised by a division.
ZeroDivisionError == <<0, -1>>

\* Mutant of Divide: Python's scalar division, which raises on a zero
\* denominator.
DivideRaising(x, y) ==
    IF y = Num(0) THEN ZeroDivisionError
    ELSE IF x = NaN \/ y = NaN THEN NaN
    ELSE Reduce(x[1] * y[2], x[2] * y[1])

\* Series / Series on floats: NaN propagates, x/0 is +-inf and 0/0 is NaN;
\* nothing is raised.
Divide(x, y) ==
    IF x = NaN \/ y = NaN THEN NaN
    ELSE IF x[2] = 0 \/ y[2] = 0 THEN NaN
    ELSE IF y[1] = 0
         THEN IF x[1] > 0 THEN Inf ELSE IF x[1] < 0 THEN NegInf ELSE NaN
    ELSE Reduce(x[1] * y[2], x[2] * y[1])

\* float addition of finite numbers
Plus(x, y) == Reduce(x[1] * y[2] + y[1] * x[2], x[2] * y[2])

\* Series.fillna(0)
fillna(x) == IF x = NaN THEN Num(0) ELSE x

\* np.where(cond, a, 0), one element
npwhere(cond, a) == IF cond THEN a ELSE Num(0)

(***************************************************************************)
(* The year scope argument: None, an int or a str.                         *)
(***************************************************************************)
None == [kind |-> "None", i |-> 0, s |-> << >>]
IntScope(n) == [kind |-> "int", i |-> n, s |-> << >>]
StrScope(chars) == [kind |-> "str", i |-> 0, s |-> chars]

Digits == <<"0", "1", "2", "3", "4", "5", "6", "7", "8", "9">>
Alle == StrScope(<<"A", "l", "l", "e">>)

DigitVal(c) == (CHOOSE k \in 1..10 : Digits[k] = c) - 1

\* int(str) for a string of decimal digits
RECURSIVE ParseInt(_)
ParseInt(chars) ==
    IF chars = << >> THEN 0
    ELSE 10 * ParseInt(SubSeq(chars, 1, Len(chars) - 1))
         + DigitVal(chars[Len(chars)])

\* str(n) for n >= 0
RECURSIVE StrOf(_)
StrOf(n) ==
    IF n < 10 THEN <<Digits[n + 1]>>
    ELSE Append(StrOf(n \div 10), Digits[(n % 10) + 1])

\* Python truthiness of the argument: None, 0 and '' are falsy.
Truthy(sel) ==
    CASE sel.kind = "None" -> FALSE
      [] sel.kind = "int" -> sel.i # 0
      [] sel.kind = "str" -> sel.s # << >>

\* int(selected_year)
IntOf(sel) == IF sel.kind = "int" THEN sel.i ELSE ParseInt(sel.s)

\* selected_year and selected_year != 'Alle'
YearSpecified(sel) == Truthy(sel) /\ sel # Alle

(***************************************************************************)
(* The input domains.                                                      *)
(***************************************************************************)
\* project_name values, in sorted order
Names == <<"A", "B">>
NameSet == {Names[k] : k \in 1..Len(Names)}
\* A building stands in one city; the consumption file names its own city
\* on every row, which need not be the building's.
BuildingCity == [n \in NameSet |-> IF n = "A" THEN "OSLO" ELSE "BERGEN"]
ElecCities == {"OSLO"}
Years == {2020, 2021}
YearCells == {Num(y) : y \in Years} \cup {NaN}
KwhCells == {NaN, Num(0), Num(10000)}
HECells == {NaN, Num(0), Num(100)}
BRACells == {NaN, Num(0), Num(500)}

ElecRows ==
    [project_name : NameSet, City : ElecCities, Year : YearCells,
     Year_total_KwH : KwhCells]
StaticRows ==
    {[project_name |-> n, City |-> BuildingCity[n], total_HE |-> he,
      Total_BRA |-> bra] : n \in NameSet, he \in HECells, bra \in BRACells}

ElecTables == UNION {[1..n -> ElecRows] : n \in 0..MaxElecRows}
StaticTables == UNION {[1..n -> StaticRows] : n \in 0..MaxStaticRows}

ScopeYears == {0} \cup Years
Scopes ==
    {None, Alle} \cup {IntScope(y) : y \in ScopeYears}
                 \cup {StrScope(StrOf(y)) : y \in Years}

(***************************************************************************)
(* merge_consumption_with_static, statement by statement.                  *)
(***************************************************************************)
\* Mutant of FilterByYear: the year filter is not applied.
FilterNothing(electricity, sel) == electricity

\* electricity_df[electricity_df['Year'] == int(selected_year)], or the
\* table itself when no year is specified.
FilterByYear(electricity, sel) ==
    IF YearSpecified(sel)
    THEN LET y == Num(IntOf(sel))
             InYear(r) == notna(r.Year) /\ r.Year = y
         IN  SelectSeq(electricity, InYear)
    ELSE electricity

\* The rows of one groupby('project_name') group, in table order.
GroupRows(df, name) ==
    LET InGroup(r) == r.project_name = name IN SelectSeq(df, InGroup)

\* Mutant of AggFirst: the value of the group's first row, null or not
\* (GroupBy.nth(0)).
AggFirstPositional(cells) == IF cells = << >> THEN NaN ELSE Head(cells)

\* GroupBy.first(): the first non-null value of the column in the group,
\* NaN when the group has none.
RECURSIVE AggFirst(_)
AggFirst(cells) ==
    IF cells = << >> THEN NaN
    ELSE IF notna(Head(cells)) THEN Head(cells)
    ELSE AggFirst(Tail(cells))

\* Mutant of AggSum: 'first' in the all-years branch too.
AggSumAsFirst(cells) == AggFirst(cells)

\* GroupBy.sum(): the sum of the non-null values, 0 when there is none.
RECURSIVE AggSum(_)
AggSum(cells) ==
    IF cells = << >> THEN Num(0)
    ELSE IF notna(Head(cells)) THEN Plus(Head(cells), AggSum(Tail(cells)))
    ELSE AggSum(Tail(cells))

\* GroupBy.first() on the City column (strings: no null city in the model).
FirstCity(rows) == rows[1].City

TotalCells(rows) == [k \in 1..Len(rows) |-> rows[k].Year_total_KwH]

\* One row of consumption_summary.
SummaryRow(df, name, sel) ==
    LET rows == GroupRows(df, name)
    IN  [project_name |-> name,
         Year_total_KwH |-> IF YearSpecified(sel)
                            THEN AggFirst(TotalCells(rows))
                            ELSE AggSum(TotalCells(rows)),
         City |-> FirstCity(rows)]

\* electricity_filtered.groupby('project_name').agg({...}).reset_index():
\* one row per project_name present, in sorted key order.
RECURSIVE SummaryFrom(_, _, _)
SummaryFrom(df, sel, k) ==
    IF k > Len(Names) THEN << >>
    ELSE (IF GroupRows(df, Names[k]) = << >> THEN << >>
          ELSE <<SummaryRow(df, Names[k], sel)>>)
         \o SummaryFrom(df, sel, k + 1)

Aggregate(electricity_filtered, sel) == SummaryFrom(electricity_filtered, sel, 1)

\* Mutant of JoinedRow: the suffixes swapped, ('_static', ''), so that City is
\* the consumption side's.
JoinedRowSwapped(l, total, city_elec) ==
    [project_name |-> l.project_name, City |-> city_elec,
     total_HE |-> l.total_HE, Total_BRA |-> l.Total_BRA,
     Year_total_KwH |-> total, City_elec |-> l.City]

\* The rows pd.merge(..., how='left', suffixes=('', '_elec')) emits for one
\* left row: one per matching right row, or one with NaN right columns.
\* Both sides have a City column: the left keeps its name, the right
\* becomes City_elec.
JoinedRow(l, total, city_elec) ==
    [project_name |-> l.project_name, City |-> l.City,
     total_HE |-> l.total_HE, Total_BRA |-> l.Total_BRA,
     Year_total_KwH |-> total, City_elec |-> city_elec]

\* The null of an object (string) column.
NoCity == ""

\* Mutant of MatchesOf: how='inner', an unmatched left row is dropped.
MatchesOfInner(l, summary) ==
    LET InGroup(r) == r.project_name = l.project_name
        m == SelectSeq(summary, InGroup)
    IN  [k \in 1..Len(m) |-> JoinedRow(l, m[k].Year_total_KwH, m[k].City)]

MatchesOf(l, summary) ==
    LET m == GroupRows(summary, l.project_name)
    IN  IF m = << >> THEN <<JoinedRow(l, NaN, NoCity)>>
        ELSE [k \in 1..Len(m) |->
                 JoinedRow(l, m[k].Year_total_KwH, m[k].City)]

\* Mutant of LeftMerge: how='right', one row per summary row, with the
\* Building columns of the first building of that name or NaN.
LeftMergeRight(static, summary) ==
    [k \in 1..Len(summary) |->
        LET m == GroupRows(static, summary[k].project_name)
        IN  IF m = << >>
            THEN [project_name |-> summary[k].project_name, City |-> NoCity,
                  total_HE |-> NaN, Total_BRA |-> NaN,
                  Year_total_KwH |-> summary[k].Year_total_KwH,
                  City_elec |-> summary[k].City]
            ELSE JoinedRow(m[1], summary[k].Year_total_KwH, summary[k].City)]

RECURSIVE LeftMerge(_, _)
LeftMerge(static, summary) ==
    IF static = << >> THEN << >>
    ELSE MatchesOf(Head(static), summary) \o LeftMerge(Tail(static), summary)

\* merged_df.drop('City_elec', axis=1)
DropColumn(row, col) == [c \in (DOMAIN row) \ {col} |-> row[c]]

DropCityElec(merged) ==
    [k \in 1..Len(merged) |->
        IF "City_elec" \in DOMAIN merged[k]
        THEN DropColumn(merged[k], "City_elec") ELSE merged[k]]

\* Mutant of KwhPerStudent: the notna() conjunct left out.
KwhPerStudentNoNotna(row) ==
    npwhere(GtZero(row.total_HE), Divide(row.Year_total_KwH, row.total_HE))

\* merged_df['kwh_per_student'] = np.where((total_HE > 0) & total.notna(),
\*                                         total / total_HE, 0)
KwhPerStudent(row) ==
    npwhere(GtZero(row.total_HE) /\ notna(row.Year_total_KwH),
            Divide(row.Year_total_KwH, row.total_HE))

\* Mutant of KwhPerM2: the denominator copied from the line above.
KwhPerM2ByHE(row) ==
    npwhere(GtZero(row.Total_BRA) /\ notna(row.Year_total_KwH),
            Divide(row.Year_total_KwH, row.total_HE))

\* merged_df['kwh_per_m2'] = np.where((Total_BRA > 0) & total.notna(),
\*                                    total / Total_BRA, 0)
KwhPerM2(row) ==
    npwhere(GtZero(row.Total_BRA) /\ notna(row.Year_total_KwH),
            Divide(row.Year_total_KwH, row.Total_BRA))

Extend(row, col, val) ==
    [c \in (DOMAIN row) \cup {col} |-> IF c = col THEN val ELSE row[c]]

WithRatios(merged) ==
    [k \in 1..Len(merged) |->
        Extend(Extend(merged[k], "kwh_per_student", KwhPerStudent(merged[k])),
               "kwh_per_m2", KwhPerM2(merged[k]))]

\* merged_df['Year_total_KwH'] = merged_df['Year_total_KwH'].fillna(0)
FillTotal(merged) ==
    [k \in 1..Len(merged) |->
        [merged[k] EXCEPT !.Year_total_KwH = fillna(@)]]

merge_consumption_with_static(electricity, static, sel) ==
    LET electricity_filtered == FilterByYear(electricity, sel)
        consumption_summary == Aggregate(electricity_filtered, sel)
    IN  FillTotal(WithRatios(DropCityElec(
            LeftMerge(static, consumption_summary))))

(***************************************************************************)
(* The state machine: the session's two tables are loaded once; every call *)
(* takes a year scope and returns a Merged table.                          *)
(***************************************************************************)
Init ==
    /\ electricity_df \in ElecTables
    /\ static_df \in StaticTables
    /\ Len(electricity_df) + Len(static_df) <= MaxRows
    /\ selected_year = None
    /\ merged_df = << >>
    /\ pc = "idle"
    /\ session = NotRunning /\ calls = NotRunning /\ schema = NotRunning
    /\ charts = NotRunning /\ loader = NotRunning /\ dash = NotRunning

\* get_merged_data(processor, electricity_data, static_data, selected_year)
Call(sel) ==
    /\ pc = "idle"
    /\ selected_year' = sel
    /\ merged_df' = merge_consumption_with_static(electricity_df, static_df, sel)
    /\ pc' = "returned"
    /\ UNCHANGED <<electricity_df, static_df>>
    /\ UNCHANGED otherVars

\* The script run ends and its locals are dropped; the next run calls again.
Rerun ==
    /\ pc = "returned"
    /\ selected_year' = None
    /\ merged_df' = << >>
    /\ pc' = "idle"
    /\ UNCHANGED <<electricity_df, static_df>>
    /\ UNCHANGED otherVars

Next == (\E sel \in Scopes : Call(sel)) \/ Rerun

Spec == Init /\ [][Next]_vars

(***************************************************************************)
(* What the properties speak of, stated on the caller's tables and the     *)
(* returned table, not through the steps above.                            *)
(***************************************************************************)
Returned == pc = "returned"

MergedRows == 1..Len(merged_df)

\* The scope as the properties read it: all years for None and 'Alle',
\* otherwise the year that the int or the digit string denotes.
AllYearsScope(sel) == sel = None \/ sel = Alle
ScopeYear(sel) == IF sel.kind = "int" THEN sel.i ELSE ParseInt(sel.s)

\* A building's consumption rows, and those of one year, in table order.
RowsOfBuilding(name) ==
    LET Mine(r) == r.project_name = name IN SelectSeq(electricity_df, Mine)
RowsOfBuildingInYear(name, y) ==
    LET Mine(r) == r.project_name = name /\ r.Year = Num(y)
    IN  SelectSeq(electricity_df, Mine)
RowsInScope(name, sel) ==
    IF AllYearsScope(sel) THEN RowsOfBuilding(name)
    ELSE RowsOfBuildingInYear(name, ScopeYear(sel))

\* A missing annual total counts as 0.
ZeroFilled(cell) == IF cell = NaN THEN 0 ELSE cell[1]

RECURSIVE SumZeroFilled(_)
SumZeroFilled(rows) ==
    IF rows = << >> THEN 0
    ELSE ZeroFilled(Head(rows).Year_total_KwH) + SumZeroFilled(Tail(rows))

\* A finite number: neither NaN nor an infinity.
Defined(cell) == cell[2] > 0
Positive(cell) == cell[2] > 0 /\ cell[1] > 0

\* The ratio cell equals num / den (den > 0), by cross-multiplication.
IsQuotient(cell, num, den) == Defined(cell) /\ cell[1] * den = num * cell[2]

\* C1 (P1, left-join completeness): the returned table has exactly one row
\* per Building row, in the Building table's order and carrying its
\* attributes, for every Consumption table and every scope, matched or not,
\* repeated project_name values included.
C1_LeftJoinComplete ==
    Returned =>
        /\ Len(merged_df) = Len(static_df)
        /\ \A k \in 1..Len(static_df) :
              /\ merged_df[k].project_name = static_df[k].project_name
              /\ merged_df[k].total_HE = static_df[k].total_HE
              /\ merged_df[k].Total_BRA = static_df[k].Total_BRA

\* Two Building rows of the same project_name, one consumption row that
\* matches them, and a call that has returned.
C1_Witness ==
    /\ Returned
    /\ Len(static_df) = 2
    /\ static_df[1].project_name = static_df[2].project_name
    /\ RowsInScope(static_df[1].project_name, selected_year) # << >>
    /\ Len(merged_df) = 2

\* C2: a building with no consumption row in the selected scope (none at
\* all, or none for the selected year) has Year_total_KwH = 0,
\* kwh_per_student = 0 and kwh_per_m2 = 0 in the returned table.
C2_UnmatchedIsZero ==
    Returned =>
        \A k \in MergedRows :
            RowsInScope(merged_df[k].project_name, selected_year) = << >> =>
                /\ merged_df[k].Year_total_KwH = Num(0)
                /\ merged_df[k].kwh_per_student = Num(0)
                /\ merged_df[k].kwh_per_m2 = Num(0)

\* C3 (P2, zero-fill): in every returned row Year_total_KwH, kwh_per_student
\* and kwh_per_m2 are defined numbers, whichever of the consumption total,
\* total_HE and Total_BRA is missing.
C3_NoNaN ==
    Returned =>
        \A k \in MergedRows :
            /\ Defined(merged_df[k].Year_total_KwH)
            /\ Defined(merged_df[k].kwh_per_student)
            /\ Defined(merged_df[k].kwh_per_m2)

\* A returned row whose area is missing, whose capacity is positive and
\* whose only consumption row for the scope year has a missing total.
C3_Witness ==
    /\ Returned
    /\ ~AllYearsScope(selected_year)
    /\ \E k \in MergedRows :
          LET rows == RowsInScope(merged_df[k].project_name, selected_year) IN
          /\ merged_df[k].Total_BRA = NaN
          /\ Positive(merged_df[k].total_HE)
          /\ Len(rows) = 1
          /\ rows[1].Year_total_KwH = NaN
          /\ merged_df[k].kwh_per_student = Num(0)

\* C4 (P3, ratio guard): total_HE = 0 gives kwh_per_student = 0 and
\* Total_BRA = 0 gives kwh_per_m2 = 0, whatever the total; a zero capacity
\* leaves kwh_per_m2 the quotient by the area, and a zero area leaves
\* kwh_per_student the quotient by the capacity.
C4_RatioGuard ==
    Returned =>
        \A k \in MergedRows :
            LET row == merged_df[k] IN
            /\ row.total_HE = Num(0) => row.kwh_per_student = Num(0)
            /\ row.Total_BRA = Num(0) => row.kwh_per_m2 = Num(0)
            /\ (row.total_HE = Num(0) /\ Positive(row.Total_BRA)) =>
                  IsQuotient(row.kwh_per_m2, row.Year_total_KwH[1],
                             row.Total_BRA[1])
            /\ (row.Total_BRA = Num(0) /\ Positive(row.total_HE)) =>
                  IsQuotient(row.kwh_per_student, row.Year_total_KwH[1],
                             row.total_HE[1])

\* A row of capacity 0 and total 10000 whose kwh_per_student is 0 while its
\* kwh_per_m2 is 20.
C4_Witness ==
    /\ Returned
    /\ \E k \in MergedRows :
          /\ merged_df[k].total_HE = Num(0)
          /\ merged_df[k].Total_BRA = Num(500)
          /\ merged_df[k].Year_total_KwH = Num(10000)
          /\ merged_df[k].kwh_per_student = Num(0)
          /\ merged_df[k].kwh_per_m2 = Num(20)

\* C5: in every returned row with total_HE > 0, kwh_per_student is the
\* row's reported Year_total_KwH divided by total_HE, and with
\* Total_BRA > 0, kwh_per_m2 is it divided by Total_BRA; capacity 100,
\* area 500 and total 10000 give 100 and 20.
C5_RatioValue ==
    Returned =>
        \A k \in MergedRows :
            LET row == merged_df[k] IN
            /\ Positive(row.total_HE) =>
                  IsQuotient(row.kwh_per_student, row.Year_total_KwH[1],
                             row.total_HE[1])
            /\ Positive(row.Total_BRA) =>
                  IsQuotient(row.kwh_per_m2, row.Year_total_KwH[1],
                             row.Total_BRA[1])
            /\ (row.total_HE = Num(100) /\ row.Total_BRA = Num(500)
                /\ row.Year_total_KwH = Num(10000)) =>
                  (row.kwh_per_student = Num(100) /\ row.kwh_per_m2 = Num(20))

\* Scenario A: capacity 100, area 500, one row of 10000 for the scope year.
C5_Witness ==
    /\ Returned
    /\ selected_year = IntScope(2021)
    /\ \E k \in MergedRows :
          /\ merged_df[k].total_HE = Num(100)
          /\ merged_df[k].Total_BRA = Num(500)
          /\ merged_df[k].Year_total_KwH = Num(10000)
          /\ merged_df[k].kwh_per_student = Num(100)
          /\ merged_df[k].kwh_per_m2 = Num(20)

\* C6: in the all-years scope (None or 'Alle') each building's
\* Year_total_KwH is the sum of the annual totals of all its consumption
\* rows, a missing total counting as 0; None and 'Alle' return the same
\* table.
C6_AllYearsSum ==
    (Returned /\ AllYearsScope(selected_year)) =>
        /\ \A k \in MergedRows :
              merged_df[k].Year_total_KwH =
                  Num(SumZeroFilled(RowsOfBuilding(merged_df[k].project_name)))
        /\ merged_df = merge_consumption_with_static(
                           electricity_df, static_df,
                           IF selected_year = None THEN Alle ELSE None)

\* Scenario D: two rows of one building, years 2020 and 2021, scope 'Alle',
\* and the total is the sum of both.
C6_Witness ==
    /\ Returned
    /\ selected_year = Alle
    /\ \E k \in MergedRows :
          LET rows == RowsOfBuilding(merged_df[k].project_name) IN
          /\ Len(rows) = 2
          /\ rows[1].Year = Num(2020) /\ rows[2].Year = Num(2021)
          /\ rows[1].Year_total_KwH = Num(10000)
          /\ rows[2].Year_total_KwH = Num(10000)
          /\ merged_df[k].Year_total_KwH = Num(20000)

\* C7: for a scope that is a specific year y, given as any int or as its
\* digit string, only the rows whose Year is y contribute: a building's
\* Year_total_KwH is the (zero-filled) annual total of a row of its for year
\* y, and 0 when it has none.
C7_OnlyScopeYearRows ==
    (Returned /\ ~AllYearsScope(selected_year)) =>
        \A k \in MergedRows :
            LET rows == RowsOfBuildingInYear(merged_df[k].project_name,
                                             ScopeYear(selected_year))
            IN  IF rows = << >>
                THEN merged_df[k].Year_total_KwH = Num(0)
                ELSE \E j \in 1..Len(rows) :
                        merged_df[k].Year_total_KwH =
                            Num(ZeroFilled(rows[j].Year_total_KwH))

\* The years that occur in the consumption table.
DataYears ==
    {electricity_df[j].Year[1] :
        j \in {i \in 1..Len(electricity_df) : electricity_df[i].Year # NaN}}

\* Row k's Year_total_KwH in the single-year call for year y, the year given
\* as an int (asStr = FALSE) or as its digit string (asStr = TRUE).
SingleYearTotal(k, y, asStr) ==
    merge_consumption_with_static(
        electricity_df, static_df,
        IF asStr THEN StrScope(StrOf(y)) ELSE IntScope(y))[k].Year_total_KwH[1]

RECURSIVE SumOverYears(_, _, _)
SumOverYears(k, years, asStr) ==
    IF years = {} THEN 0
    ELSE LET y == CHOOSE z \in years : TRUE
         IN  SingleYearTotal(k, y, asStr)
                 + SumOverYears(k, years \ {y}, asStr)

\* No two consumption rows of the building carry the same year.
NoDuplicateYear(name) ==
    LET rows == RowsOfBuilding(name)
    IN  \A i, j \in 1..Len(rows) :
            (i < j /\ rows[i].Year # NaN) => rows[i].Year # rows[j].Year

NoMissingYear(name) ==
    LET rows == RowsOfBuilding(name)
    IN  \A i \in 1..Len(rows) : rows[i].Year # NaN

\* C8 as stated (P4, scope consistency): for a building without duplicate
\* (building, year) rows, the sum of its single-year totals over all years
\* of the table equals its all-years total, rows with a missing year or a
\* missing total included.
C8_ScopeConsistency_AsStated ==
    (Returned /\ selected_year = None) =>
        \A k \in MergedRows : \A asStr \in BOOLEAN :
            NoDuplicateYear(merged_df[k].project_name) =>
                SumOverYears(k, DataYears, asStr)
                    = merged_df[k].Year_total_KwH[1]

\* C8, amended: the same, for a building that has neither duplicate
\* (building, year) rows nor a row whose year is missing; rows with a
\* missing annual total are allowed.
C8_ScopeConsistency ==
    (Returned /\ selected_year = None) =>
        \A k \in MergedRows : \A asStr \in BOOLEAN :
            (/\ NoDuplicateYear(merged_df[k].project_name)
             /\ NoMissingYear(merged_df[k].project_name)) =>
                SumOverYears(k, DataYears, asStr)
                    = merged_df[k].Year_total_KwH[1]

\* A building with a row for 2020 and a row for 2021, 10000 each, after the
\* all-years call: its total is 20000.
C8_Witness ==
    /\ Returned
    /\ selected_year = None
    /\ \E k \in MergedRows :
          LET rows == RowsOfBuilding(merged_df[k].project_name) IN
          /\ Len(rows) = 2
          /\ rows[1].Year = Num(2021) /\ rows[2].Year = Num(2020)
          /\ rows[1].Year_total_KwH = Num(10000)
          /\ rows[2].Year_total_KwH = Num(10000)
          /\ merged_df[k].Year_total_KwH = Num(20000)
          /\ SingleYearTotal(k, 2020, FALSE) = 10000
          /\ SingleYearTotal(k, 2021, TRUE) = 10000

\* The single-year scopes: an int or a digit string that denotes a year of
\* the table.
SingleYearScope(sel) == ~AllYearsScope(sel) /\ ScopeYear(sel) \in DataYears

\* The first present (non-missing) annual total among the rows, in table
\* order; missing when the rows have none.
FirstPresent(rows) ==
    LET present == {j \in 1..Len(rows) : rows[j].Year_total_KwH # NaN}
    IN  IF present = {} THEN NaN
        ELSE rows[CHOOSE j \in present : \A i \in present : j <= i]
                 .Year_total_KwH

\* C9 as stated: in a single-year scope a building with more than one row
\* for that year gets the annual total of the first such row in table
\* order, whatever it is, a missing one (reported zero-filled) included.
C9_FirstRow_AsStated ==
    (Returned /\ SingleYearScope(selected_year)) =>
        \A k \in MergedRows :
            LET rows == RowsInScope(merged_df[k].project_name, selected_year)
            IN  Len(rows) > 1 =>
                    merged_df[k].Year_total_KwH
                        = Num(ZeroFilled(rows[1].Year_total_KwH))

\* C9, amended: it gets the first non-missing annual total among those rows
\* in table order, and 0 when all of them are missing; the duplicates are
\* neither summed nor rejected.
C9_FirstPresentRow ==
    (Returned /\ SingleYearScope(selected_year)) =>
        \A k \in MergedRows :
            LET rows == RowsInScope(merged_df[k].project_name, selected_year)
            IN  Len(rows) > 1 =>
                    merged_df[k].Year_total_KwH
                        = Num(ZeroFilled(FirstPresent(rows)))

\* Two rows of one building for the scope year, the first with a missing
\* total and the second with 10000: the returned total is 10000.
C9_Witness ==
    /\ Returned
    /\ SingleYearScope(selected_year)
    /\ \E k \in MergedRows :
          LET rows == RowsInScope(merged_df[k].project_name, selected_year)
          IN  /\ Len(rows) = 2
              /\ rows[1].Year_total_KwH = NaN
              /\ rows[2].Year_total_KwH = Num(10000)
              /\ merged_df[k].Year_total_KwH = Num(10000)

\* C10: every returned row has the City of its Building row, also when the
\* building's consumption rows name another city, and no row has a second,
\* consumption-side city column.
C10_CityFromBuilding ==
    Returned =>
        /\ Len(merged_df) = Len(static_df)
        /\ \A k \in 1..Len(static_df) :
              /\ merged_df[k].City = static_df[k].City
              /\ DOMAIN merged_df[k] =
                    (DOMAIN static_df[k])
                        \cup {"Year_total_KwH", "kwh_per_student", "kwh_per_m2"}

\* A returned row of a building in BERGEN whose matched consumption rows
\* say OSLO.
C10_Witness ==
    /\ Returned
    /\ \E k \in MergedRows :
          LET rows == RowsInScope(merged_df[k].project_name, selected_year)
          IN  /\ rows # << >>
              /\ rows[1].City = "OSLO"
              /\ ~AllYearsScope(selected_year)
              /\ merged_df[k].City = "BERGEN"
              /\ merged_df[k].Year_total_KwH = Num(10000)

(***************************************************************************)
(* A session: the dashboard loads its two tables once and calls            *)
(* merge_consumption_with_static on them again and again, with other       *)
(* scopes, and in between on other tables.                                 *)
(***************************************************************************)
\* What the call leaves in the caller's Consumption table: line 142 builds a
\* new frame by boolean indexing, line 145 only aliases the argument, and
\* groupby/agg read it; no statement assigns into electricity_df.
ElectricityAfterFiltered(electricity, sel) == FilterByYear(electricity, sel)

ElectricityAfter(electricity, sel) == electricity

\* What the call leaves in the caller's Building table: pd.merge builds a new
\* frame, and the assignments of lines 175-188 write columns of that frame.
StaticAfterMerged(static, merged) == merged

StaticAfter(static, merged) == static

\* The tables a session works on: one building, two consumption rows.
SessionElecRows ==
    {r \in ElecRows : r.project_name = "A" /\ r.Year # NaN
                      /\ r.Year_total_KwH # Num(0)}
SessionElecTables == [1..2 -> SessionElecRows]
SessionStaticRows ==
    {r \in StaticRows : r.project_name = "A" /\ r.total_HE # NaN
                        /\ r.Total_BRA = Num(500)}
SessionStaticTables == [1..1 -> SessionStaticRows]

\* No call has been set aside yet.
NoCall(electricity, static) ==
    [electricity |-> electricity, static |-> static, called |-> FALSE,
     selected_year |-> None, merged_df |-> << >>, other_since |-> FALSE]

SessionInit ==
    /\ electricity_df \in SessionElecTables
    /\ static_df \in SessionStaticTables
    /\ selected_year = None
    /\ merged_df = << >>
    /\ pc = "idle"
    /\ session = NoCall(electricity_df, static_df)
    /\ calls = NotRunning /\ schema = NotRunning /\ charts = NotRunning
    /\ loader = NotRunning /\ dash = NotRunning

\* A call on the session's tables.  `keep' sets this call aside as the one
\* later calls are compared with.
SessionCall(sel, keep) ==
    /\ pc = "idle"
    /\ selected_year' = sel
    /\ merged_df' = merge_consumption_with_static(electricity_df, static_df, sel)
    /\ electricity_df' = ElectricityAfter(electricity_df, sel)
    /\ static_df' = StaticAfter(static_df, merged_df')
    /\ pc' = "returned"
    /\ session' =
         IF keep /\ ~session.called
         THEN [session EXCEPT !.called = TRUE, !.selected_year = sel,
                              !.merged_df = merged_df']
         ELSE IF session.called /\ sel # session.selected_year
              THEN [session EXCEPT !.other_since = TRUE]
              ELSE session
    /\ UNCHANGED <<calls, schema, charts, loader, dash>>

\* A call on another Consumption table than the session's, without a scope
\* (chart_utils builds its comparison and export tables this way).
SessionCallOther(electricity) ==
    /\ pc = "idle"
    /\ electricity # electricity_df
    /\ selected_year' = None
    /\ merged_df' = merge_consumption_with_static(electricity, static_df, None)
    /\ static_df' = StaticAfter(static_df, merged_df')
    /\ pc' = "returned_other"
    /\ session' = IF session.called
                  THEN [session EXCEPT !.other_since = TRUE]
                  ELSE session
    /\ UNCHANGED <<electricity_df, calls, schema, charts, loader, dash>>

SessionReturn ==
    /\ pc \in {"returned", "returned_other"}
    /\ selected_year' = None
    /\ merged_df' = << >>
    /\ pc' = "idle"
    /\ UNCHANGED <<electricity_df, static_df>>
    /\ UNCHANGED otherVars

SessionNext ==
    \/ \E sel \in Scopes, keep \in BOOLEAN : SessionCall(sel, keep)
    \/ \E electricity \in SessionElecTables : SessionCallOther(electricity)
    \/ SessionReturn

SpecSession == SessionInit /\ [][SessionNext]_vars

\* C11: a call on the session's tables with the scope of the call set aside
\* returns the table that call returned, whatever calls with other scopes or
\* other tables came in between.
C11_SameInputsSameTable ==
    (pc = "returned" /\ session.called
        /\ selected_year = session.selected_year)
    => merged_df = session.merged_df

C11_Witness ==
    /\ pc = "returned"
    /\ session.called /\ session.other_since
    /\ selected_year = session.selected_year
    /\ selected_year = Alle
    /\ Len(merged_df) = 1
    /\ merged_df[1].Year_total_KwH = Num(20000)
    /\ merged_df[1].kwh_per_student = Num(200)

\* C12: after a call, in every scope, the caller's Consumption table and
\* Building table are the tables that were loaded: same rows, same columns,
\* same cells.
C12_ArgumentsUntouched ==
    (pc \in {"returned", "returned_other"})
    => /\ electricity_df = session.electricity
       /\ static_df = session.static

C12_Witness ==
    /\ pc = "returned"
    /\ ~AllYearsScope(selected_year) /\ ScopeYear(selected_year) = 2021
    /\ \E k \in 1..Len(electricity_df) : electricity_df[k].Year = Num(2020)
    /\ \E k \in 1..Len(electricity_df) :
           electricity_df[k].Year = Num(2021)
           /\ electricity_df[k].Year_total_KwH = NaN
    /\ Len(merged_df) = 1
    /\ merged_df[1].Year_total_KwH = Num(0)
    /\ DOMAIN static_df[1] # DOMAIN merged_df[1]
    /\ electricity_df = session.electricity
    /\ static_df = session.static

(***************************************************************************)
(* Two calls in progress on the same two tables, each executing the        *)
(* statements of merge_consumption_with_static one at a time.              *)
(***************************************************************************)
Callers == {1, 2}

\* Where a call keeps electricity_filtered, consumption_summary and
\* merged_df: they are local names of the function, so each call has its own;
\* DataProcessor.__init__ sets nothing but data_dir on the object.
FrameOfObject(p) == 1

FrameOf(p) == p

EmptyFrame ==
    [electricity_filtered |-> << >>, consumption_summary |-> << >>,
     merged_df |-> << >>]

ConcInit ==
    /\ electricity_df \in SessionElecTables
    /\ static_df \in SessionStaticTables
    /\ selected_year = None
    /\ merged_df = << >>
    /\ pc = "idle"
    /\ session = NoCall(electricity_df, static_df)
    /\ \E sel1 \in Scopes, sel2 \in Scopes :
          /\ sel1 # sel2
          /\ calls = [at |-> [p \in Callers |-> "filter"],
                      selected_year |-> [p \in Callers |->
                                            IF p = 1 THEN sel1 ELSE sel2],
                      frame |-> [f \in Callers |-> EmptyFrame],
                      returned |-> [p \in Callers |-> << >>],
                      interleaved |-> FALSE]
    /\ schema = NotRunning /\ charts = NotRunning
    /\ loader = NotRunning /\ dash = NotRunning

\* The other call is between its first and its last statement.
OtherInProgress(p) ==
    \E q \in Callers \ {p} : calls.at[q] \notin {"filter", "done"}

Advance(p, to, frame) ==
    [calls EXCEPT !.at[p] = to, !.frame[FrameOf(p)] = frame,
                  !.interleaved = @ \/ OtherInProgress(p)]

\* lines 141-145
FilterStep(p) ==
    /\ calls.at[p] = "filter"
    /\ calls' = Advance(p, "aggregate",
                   [calls.frame[FrameOf(p)] EXCEPT !.electricity_filtered =
                       FilterByYear(electricity_df, calls.selected_year[p])])
    /\ electricity_df' = ElectricityAfter(electricity_df, calls.selected_year[p])
    /\ UNCHANGED <<static_df, selected_year, merged_df, pc>>
    /\ UNCHANGED <<session, schema, charts, loader, dash>>

\* lines 148-159
AggregateStep(p) ==
    /\ calls.at[p] = "aggregate"
    /\ calls' = Advance(p, "join",
                   [calls.frame[FrameOf(p)] EXCEPT !.consumption_summary =
                       Aggregate(calls.frame[FrameOf(p)].electricity_filtered,
                                 calls.selected_year[p])])
    /\ UNCHANGED mergeVars
    /\ UNCHANGED <<session, schema, charts, loader, dash>>

\* lines 162-172
JoinStep(p) ==
    /\ calls.at[p] = "join"
    /\ LET joined == DropCityElec(LeftMerge(static_df,
                         calls.frame[FrameOf(p)].consumption_summary))
       IN  /\ calls' = Advance(p, "ratios",
                          [calls.frame[FrameOf(p)] EXCEPT !.merged_df = joined])
           /\ static_df' = StaticAfter(static_df, joined)
    /\ UNCHANGED <<electricity_df, selected_year, merged_df, pc>>
    /\ UNCHANGED <<session, schema, charts, loader, dash>>

\* lines 175-185
RatiosStep(p) ==
    /\ calls.at[p] = "ratios"
    /\ calls' = Advance(p, "fill",
                   [calls.frame[FrameOf(p)] EXCEPT !.merged_df =
                       WithRatios(calls.frame[FrameOf(p)].merged_df)])
    /\ UNCHANGED mergeVars
    /\ UNCHANGED <<session, schema, charts, loader, dash>>

\* lines 188-190
FillStep(p) ==
    /\ calls.at[p] = "fill"
    /\ LET filled == FillTotal(calls.frame[FrameOf(p)].merged_df)
       IN  calls' = [Advance(p, "done",
                        [calls.frame[FrameOf(p)] EXCEPT !.merged_df = filled])
                     EXCEPT !.returned[p] = filled]
    /\ UNCHANGED mergeVars
    /\ UNCHANGED <<session, schema, charts, loader, dash>>

ConcNext ==
    \E p \in Callers :
        \/ FilterStep(p)
        \/ AggregateStep(p)
        \/ JoinStep(p)
        \/ RatiosStep(p)
        \/ FillStep(p)

SpecConc == ConcInit /\ [][ConcNext]_vars

\* C13: a call that has returned while another call with another scope ran
\* on the same tables, its statements interleaved with this one's in any
\* order, returned the table the call returns when it runs alone.
C13_InterleavedAsAlone ==
    \A p \in Callers :
        calls.at[p] = "done"
        => calls.returned[p] =
             merge_consumption_with_static(session.electricity, session.static,
                                           calls.selected_year[p])

C13_Witness ==
    /\ calls.at[1] = "done" /\ calls.at[2] = "done"
    /\ calls.interleaved
    /\ calls.selected_year[1] = Alle
    /\ calls.selected_year[2] = StrScope(StrOf(2021))
    /\ calls.returned[1][1].Year_total_KwH = Num(20000)
    /\ calls.returned[2][1].Year_total_KwH = Num(10000)

(***************************************************************************)
(* The outcome of a call: a Merged table, or the exception raised on the   *)
(* way.  A table has the columns its file had; the function indexes the    *)
(* columns by name and validates nothing first.                            *)
(***************************************************************************)
ElecColumns == {"project_name", "Year", "Year_total_KwH", "City"}
\* City of the Building table is always there (load_static_data sets it).
StaticColumns == {"project_name", "total_HE", "Total_BRA"}

\* The words an error message contains; a KeyError carries the key that was
\* looked up and nothing else.
KeyError(columns) ==
    [raised |-> TRUE, exception |-> "KeyError", names |-> columns,
     merged_df |-> << >>]

DivisionError ==
    [raised |-> TRUE, exception |-> "ZeroDivisionError", names |-> {},
     merged_df |-> << >>]

ReturnTable(merged) ==
    [raised |-> FALSE, exception |-> "", names |-> {}, merged_df |-> merged]

\* np.where evaluates both quotient columns in full, for every row, before
\* it selects: lines 177 and 183.
QuotientsRaise(joined) ==
    \E k \in 1..Len(joined) :
        \/ Divide(joined[k].Year_total_KwH, joined[k].total_HE)
             = ZeroDivisionError
        \/ Divide(joined[k].Year_total_KwH, joined[k].Total_BRA)
             = ZeroDivisionError

\* The statements in the order they index a column.
MergeOutcome(ecols, scols, electricity, static, sel) ==
    IF YearSpecified(sel) /\ "Year" \notin ecols
    THEN KeyError({"Year"})                                  \* line 142
    ELSE IF "project_name" \notin ecols
    THEN KeyError({"project_name"})                          \* groupby
    ELSE IF {"Year_total_KwH", "City"} \ ecols # {}
    THEN KeyError({"Year_total_KwH", "City"} \ ecols)        \* agg
    ELSE IF "project_name" \notin scols
    THEN KeyError({"project_name"})                          \* pd.merge
    ELSE IF "total_HE" \notin scols
    THEN KeyError({"total_HE"})                              \* line 176
    ELSE IF "Total_BRA" \notin scols
    THEN KeyError({"Total_BRA"})                             \* line 182
    ELSE IF QuotientsRaise(DropCityElec(LeftMerge(static,
                Aggregate(FilterByYear(electricity, sel), sel))))
    THEN DivisionError
    ELSE ReturnTable(merge_consumption_with_static(electricity, static, sel))

\* Values of a file with gaps: zero, negative and missing cells.
GapElecRows ==
    [project_name : {"A"}, City : ElecCities, Year : YearCells \ {NaN},
     Year_total_KwH : {NaN, Num(0), Num(-10000), Num(10000)}]
GapStaticRows ==
    [project_name : {"A"}, City : {BuildingCity["A"]},
     total_HE : {NaN, Num(0), Num(-100), Num(100)},
     Total_BRA : {NaN, Num(0), Num(-500), Num(500)}]
GapElecTables == {<< >>} \cup [1..1 -> GapElecRows]
GapStaticTables == {<< >>} \cup [1..1 -> GapStaticRows]

NoOutcome == ReturnTable(<< >>)

SchemaInit ==
    /\ electricity_df \in GapElecTables
    /\ static_df \in GapStaticTables
    /\ selected_year = None
    /\ merged_df = << >>
    /\ pc = "idle"
    /\ \E ecols \in SUBSET ElecColumns, scols \in SUBSET StaticColumns :
          schema = [electricity_columns |-> ecols, static_columns |-> scols,
                    outcome |-> NoOutcome]
    /\ session = NotRunning /\ calls = NotRunning /\ charts = NotRunning
    /\ loader = NotRunning /\ dash = NotRunning

SchemaCall(sel) ==
    /\ pc = "idle"
    /\ selected_year' = sel
    /\ schema' = [schema EXCEPT !.outcome =
                    MergeOutcome(schema.electricity_columns,
                                 schema.static_columns,
                                 electricity_df, static_df, sel)]
    /\ merged_df' = schema'.outcome.merged_df
    /\ pc' = IF schema'.outcome.raised THEN "raised" ELSE "returned"
    /\ UNCHANGED <<electricity_df, static_df>>
    /\ UNCHANGED <<session, calls, charts, loader, dash>>

SchemaReturn ==
    /\ pc \in {"raised", "returned"}
    /\ selected_year' = None
    /\ merged_df' = << >>
    /\ schema' = [schema EXCEPT !.outcome = NoOutcome]
    /\ pc' = "idle"
    /\ UNCHANGED <<electricity_df, static_df>>
    /\ UNCHANGED <<session, calls, charts, loader, dash>>

SchemaNext == (\E sel \in Scopes : SchemaCall(sel)) \/ SchemaReturn

SpecSchema == SchemaInit /\ [][SchemaNext]_vars

\* The call has ended, with a table or with an exception.
Ended == pc \in {"returned", "raised"}

\* The columns the call needs and does not find, each with its table.
MissingColumns ==
    {<<"Consumption", c>> :
        c \in ({"project_name", "Year_total_KwH", "City"}
               \cup (IF AllYearsScope(selected_year) THEN {} ELSE {"Year"}))
              \ schema.electricity_columns}
    \cup {<<"Building", c>> : c \in StaticColumns \ schema.static_columns}

\* The names a message can call a table by.
TableNames(table) ==
    IF table = "Consumption" THEN {"Consumption", "electricity_df", "electricity"}
    ELSE {"Building", "static_df", "static"}

AllColumnsPresent ==
    /\ schema.electricity_columns = ElecColumns
    /\ schema.static_columns = StaticColumns

\* C14: a call on tables that lack a needed column ends with an error that
\* names a missing column together with the table it is missing from, and
\* returns no table.
C14_SchemaErrorNamesColumnAndTable ==
    (Ended /\ MissingColumns # {})
    => /\ schema.outcome.raised
       /\ merged_df = << >>
       /\ \E m \in MissingColumns :
             /\ m[2] \in schema.outcome.names
             /\ TableNames(m[1]) \cap schema.outcome.names # {}

\* C15: with every column present, whatever cells are zero, negative or
\* missing, the call returns a table and raises nothing; the three computed
\* columns hold finite numbers, a ratio whose denominator is not positive is
\* 0, and a building whose consumption rows all lack their total has 0 in
\* all three.
C15_GapsNeverRaise ==
    (Ended /\ AllColumnsPresent)
    => /\ ~schema.outcome.raised
       /\ pc = "returned"
       /\ Len(merged_df) = Len(static_df)
       /\ \A k \in MergedRows :
             /\ Defined(merged_df[k].Year_total_KwH)
             /\ Defined(merged_df[k].kwh_per_student)
             /\ Defined(merged_df[k].kwh_per_m2)
             /\ ~Positive(static_df[k].total_HE)
                  => merged_df[k].kwh_per_student = Num(0)
             /\ ~Positive(static_df[k].Total_BRA)
                  => merged_df[k].kwh_per_m2 = Num(0)
             /\ (\A r \in 1..Len(RowsOfBuilding(static_df[k].project_name)) :
                    RowsOfBuilding(static_df[k].project_name)[r].Year_total_KwH
                      = NaN)
                  => /\ merged_df[k].Year_total_KwH = Num(0)
                     /\ merged_df[k].kwh_per_student = Num(0)
                     /\ merged_df[k].kwh_per_m2 = Num(0)

C15_Witness ==
    /\ pc = "returned" /\ AllColumnsPresent
    /\ selected_year = StrScope(StrOf(2021))
    /\ Len(electricity_df) = 1 /\ electricity_df[1].Year = Num(2021)
    /\ electricity_df[1].Year_total_KwH = Num(10000)
    /\ Len(static_df) = 1
    /\ static_df[1].total_HE = Num(0)
    /\ static_df[1].Total_BRA = Num(-500)
    /\ merged_df[1].Year_total_KwH = Num(10000)
    /\ merged_df[1].kwh_per_student = Num(0)
    /\ merged_df[1].kwh_per_m2 = Num(0)

\* The Consumption table has no row in the scope of the call.
NothingInScope ==
    \A name \in NameSet : RowsInScope(name, selected_year) = << >>

\* C16: with every column present, a call on a Building table without rows
\* raises nothing and returns a table without rows, whatever the
\* Consumption table and the scope; and a call that finds no Consumption row
\* in its scope raises nothing.
C16_EmptyInput ==
    (Ended /\ AllColumnsPresent)
    => /\ static_df = << >>
            => (~schema.outcome.raised /\ pc = "returned" /\ merged_df = << >>)
       /\ NothingInScope => (~schema.outcome.raised /\ pc = "returned")

C16_Witness ==
    /\ pc = "returned" /\ AllColumnsPresent
    /\ static_df = << >>
    /\ electricity_df # << >>
    /\ ~NothingInScope
    /\ ~schema.outcome.raised
    /\ merged_df = << >>

(***************************************************************************)
(* The dashboard: every interaction reruns main() from the top with the    *)
(* widgets' current values.                                                *)
(***************************************************************************)
\* Order of two finite cells.
Less(x, y) == x[1] * y[2] < y[1] * x[2]

\* Series.min() and Series.max() of a non-empty set of finite cells
MinOf(cells) == CHOOSE x \in cells : \A y \in cells : ~Less(y, x)
MaxOf(cells) == CHOOSE x \in cells : \A y \in cells : ~Less(x, y)

\* A string int() accepts: decimal digits only.
IntLiteral(chars) ==
    /\ chars # << >>
    /\ \A k \in 1..Len(chars) : \E d \in 1..10 : Digits[d] = chars[k]

\* The Year column is int64 when every cell parsed, float64 as soon as one
\* cell is missing (pd.to_numeric, errors='coerce').
YearIsFloat(electricity) ==
    \E k \in 1..Len(electricity) : electricity[k].Year = NaN

\* str(year) of a cell of the Year column
YearLabel(cell, isFloat) ==
    IF cell = NaN THEN <<"n", "a", "n">>
    ELSE IF isFloat THEN StrOf(cell[1]) \o <<".", "0">>
    ELSE StrOf(cell[1])

\* [str(year) for year in electricity_data['Year'].unique() if year != 2020];
\* the list is sorted for display, the choice is any of its elements.
YearOptions(electricity) ==
    {YearLabel(electricity[k].Year, YearIsFloat(electricity)) :
        k \in {j \in 1..Len(electricity) : electricity[j].Year # Num(2020)}}

\* What st.radio returns when it has no option to offer.
NoSelection == "<None>"
AlleLabel == "Alle"

\* get_merged_data is a plain function: main calls merge_consumption_with_static
\* anew in every run, and nothing of an earlier run is kept (only load_data is
\* under st.cache_data).
get_merged_data_cached(cache, electricity_data, static_data, sel) ==
    IF cache # << >> THEN cache[1]
    ELSE merge_consumption_with_static(electricity_data, static_data, sel)

get_merged_data(cache, electricity_data, static_data, sel) ==
    merge_consumption_with_static(electricity_data, static_data, sel)

\* merged_data['City'].dropna().unique()
CityOptions(merged) ==
    {merged[k].City : k \in 1..Len(merged)} \ {NoCity}

\* merged_data[merged_data['City'] == selected_city], or all of it for 'Alle'
CityFiltered(merged, city) ==
    LET InCity(r) == r.City = city
    IN  IF city # AlleLabel THEN SelectSeq(merged, InCity) ELSE merged

\* ['Alle'] + sorted(city_filtered_data['project_name'].unique().tolist())
ProjectOptions(city_filtered) ==
    {AlleLabel} \cup {city_filtered[k].project_name :
                         k \in 1..Len(city_filtered)}

\* filtered_merged[filtered_merged['project_name'] == selected_project]
ProjectFiltered(city_filtered, project) ==
    LET Named(r) == r.project_name = project
    IN  IF project # AlleLabel THEN SelectSeq(city_filtered, Named)
        ELSE city_filtered

ColorMetrics == {"kwh_per_m2", "kwh_per_student"}

\* merged_data[merged_data[color_metric] > 0][color_metric]
PositiveValues(merged, metric) ==
    {merged[k][metric] : k \in {j \in 1..Len(merged) : GtZero(merged[j][metric])}}

\* (min, max) of the positive values, (0, 0) when there is none
ScaleOf(merged, metric) ==
    IF PositiveValues(merged, metric) # {}
    THEN <<MinOf(PositiveValues(merged, metric)),
           MaxOf(PositiveValues(merged, metric))>>
    ELSE <<Num(0), Num(0)>>

\* def create_energy_map(self, merged_df, color_metric='kwh_per_m2')
CreateEnergyMapParameters == <<"merged_df", "color_metric">>
\* map_utils.create_energy_map(filtered_merged, color_metric,
\*                             (global_min, global_max))
CreateEnergyMapArguments ==
    <<"filtered_merged", "color_metric", "(global_min, global_max)">>

\* Python rejects a call with more positional arguments than parameters.
CallRaisesTypeError(arguments, parameters) == Len(arguments) > Len(parameters)

\* What main shows when it runs to its end.
AllParts == {"kpis", "map_tab", "energy_tab", "temperature_tab",
             "comparison_tab", "export"}

\* The tables the dashboard is started on.
DashYearCells == {NaN, Num(2020), Num(2021), Num(2022)}
DashElecRows ==
    {[project_name |-> n, City |-> BuildingCity[n], Year |-> y,
      Year_total_KwH |-> Num(10000)] : n \in NameSet, y \in DashYearCells}
DashElecTables == {<< >>} \cup [1..2 -> DashElecRows]
DashStaticRow(n, bra) ==
    [project_name |-> n, City |-> BuildingCity[n], total_HE |-> Num(100),
     Total_BRA |-> bra]
DashStaticTables ==
    {<< >>}
    \cup {<<DashStaticRow("A", bra)>> : bra \in {Num(0), Num(500)}}
    \cup {<<DashStaticRow("A", bra), DashStaticRow("B", Num(250))>> :
             bra \in {Num(0), Num(500)}}
    \* a building whose number of students is missing
    \cup {<<[DashStaticRow("A", Num(500)) EXCEPT !.total_HE = NaN]>>}

\* The temperature table load_data returns: one record per city, year and
\* month (Temperature in degrees).
TempData ==
    <<[City |-> "OSLO", Year |-> Num(2021), Month |-> 1,
       Temperature |-> Num(5)],
      [City |-> "OSLO", Year |-> Num(2022), Month |-> 1,
       Temperature |-> Num(6)],
      [City |-> "BERGEN", Year |-> Num(2021), Month |-> 1,
       Temperature |-> Num(7)],
      [City |-> "BERGEN", Year |-> Num(2022), Month |-> 1,
       Temperature |-> Num(8)]>>

\* table[table['City'] == city] and table[table['Year'] == int(selected_year)]
OfCity(table, city) ==
    LET InCity(r) == r.City = city IN SelectSeq(table, InCity)
OfYear(table, sel) ==
    LET InYear(r) == r.Year = Num(IntOf(sel)) IN SelectSeq(table, InYear)

\* 'Year' in filtered_merged.columns
HasYearColumn(table) == "Year" \in DOMAIN table[1]

\* project_year: the first Year cell of the filtered Merged table, None when
\* it has no such column; the test is its truthiness.
ProjectYearTruthy(filtered_merged) ==
    HasYearColumn(filtered_merged) /\ filtered_merged[1].Year # Num(0)

\* filtered_temp of lines 114-134, the year being 'Alle' or an int literal
FilteredTemp(temp_data, filtered_merged, city, sel, project) ==
    LET by_city == IF city # AlleLabel THEN OfCity(temp_data, city)
                   ELSE temp_data
        by_year == IF sel # Alle THEN OfYear(by_city, sel) ELSE by_city
        of_project == OfCity(temp_data, filtered_merged[1].City)
    IN  IF project # AlleLabel /\ filtered_merged # << >>
        THEN IF ProjectYearTruthy(filtered_merged) /\ sel # Alle
             THEN OfYear(of_project, sel) ELSE of_project
        ELSE by_year

\* filtered_electricity of lines 113-139
FilteredElectricity(electricity_data, filtered_merged, city, sel, project) ==
    LET Named(r) == r.project_name = project
        by_city == IF city # AlleLabel THEN OfCity(electricity_data, city)
                   ELSE electricity_data
        by_year == IF sel # Alle THEN OfYear(by_city, sel) ELSE by_city
        of_project == SelectSeq(electricity_data, Named)
    IN  IF project # AlleLabel /\ filtered_merged # << >>
        THEN IF sel # Alle THEN OfYear(of_project, sel) ELSE of_project
        ELSE by_year

\* filtered_merged[column].sum() if not filtered_merged.empty else 0
ColumnSum(table, column) ==
    IF table = << >> THEN Num(0)
    ELSE AggSum([k \in 1..Len(table) |-> table[k][column]])

avg_consumption_unguarded(total_consumption, total) ==
    Divide(total_consumption, total)

\* total_consumption / total if total > 0 else 0: lines 150 and 151
avg_consumption(total_consumption, total) ==
    IF GtZero(total) THEN Divide(total_consumption, total) ELSE Num(0)

\* The project the select box shows before the user touches it:
\* index=projects.index(remembered) if remembered in projects else 0.
DefaultProjectUnchecked(remembered, projects) == remembered

DefaultProject(remembered, projects) ==
    IF remembered \in projects THEN remembered ELSE AlleLabel

NotRunYet ==
    [ran |-> FALSE, show_all_data |-> FALSE, selected_year |-> None,
     selected_city |-> AlleLabel, selected_project |-> AlleLabel,
     color_metric |-> "kwh_per_m2", merged_data |-> << >>,
     filtered_merged |-> << >>, scale |-> <<Num(0), Num(0)>>,
     marker_scale |-> << >>, rendered |-> {}, error |-> "",
     previous_year |-> None,
     \* st.session_state.selected_project, as the run found it and left it
     remembered_project |-> AlleLabel, session_project |-> AlleLabel,
     filtered_electricity |-> << >>, filtered_temp |-> << >>,
     avg_consumption_per_student |-> Num(0),
     avg_consumption_per_m2 |-> Num(0)]

DashInit ==
    /\ electricity_df \in DashElecTables
    /\ static_df \in DashStaticTables
    /\ selected_year = None
    /\ merged_df = << >>
    /\ pc = "idle"
    /\ dash = NotRunYet
    /\ session = NotRunning /\ calls = NotRunning /\ schema = NotRunning
    /\ charts = NotRunning /\ loader = NotRunning

\* The run stops at the first exception; main's handler shows it with
\* st.error and what was drawn before it stays on the page.
Aborted(run, exception) == [run EXCEPT !.error = exception]

\* The value the year widget can have in a run: lines 54-60.
YearChoices(show_all) ==
    IF show_all THEN {Alle}
    ELSE IF YearOptions(electricity_df) = {} THEN {None}
    ELSE {StrScope(y) : y \in YearOptions(electricity_df)}

\* The value the city widget can have: lines 66-70.
CityChoices(show_all, merged) ==
    IF show_all THEN {AlleLabel}
    ELSE IF CityOptions(merged) = {} THEN {NoSelection}
    ELSE CityOptions(merged)

\* The value the project widget can have, lines 79-91: the one it shows, or,
\* the remembered project being among the options (they are those of the run
\* before, or the user picks in a run after), any option the user picks.
ProjectChoices(show_all, city_filtered, remembered) ==
    IF show_all THEN {AlleLabel}
    ELSE {DefaultProject(remembered, ProjectOptions(city_filtered))}
         \cup (IF remembered \in ProjectOptions(city_filtered)
               THEN ProjectOptions(city_filtered) ELSE {})

\* main from the city filter to its end, the Merged table being computed.
Render(start, merged, city, project, metric, export) ==
    LET filtered == ProjectFiltered(CityFiltered(merged, city), project)
        sel == start.selected_year
        selected == [start EXCEPT
                       !.selected_city = city,
                       !.selected_project = project,
                       !.session_project =
                          IF start.show_all_data THEN start.session_project
                          ELSE project,                      \* line 91
                       !.color_metric = metric,
                       !.merged_data = merged,
                       !.filtered_merged = filtered,
                       !.scale = ScaleOf(merged, metric)]
        total_consumption == ColumnSum(filtered, "Year_total_KwH")
        computed == [selected EXCEPT
                       !.filtered_electricity =
                          FilteredElectricity(electricity_df, filtered, city,
                                              sel, project),
                       !.filtered_temp =
                          FilteredTemp(TempData, filtered, city, sel, project),
                       !.avg_consumption_per_student =
                          avg_consumption(total_consumption,
                                          ColumnSum(filtered, "total_HE")),
                       !.avg_consumption_per_m2 =
                          avg_consumption(total_consumption,
                                          ColumnSum(filtered, "Total_BRA")),
                       !.rendered = {"kpis"}]
    IN  IF sel = None
        THEN Aborted(selected, "TypeError")          \* int(None), line 121
        ELSE IF filtered # << >>
                /\ CallRaisesTypeError(CreateEnergyMapArguments,
                                       CreateEnergyMapParameters)
        THEN Aborted(computed, "TypeError")          \* line 173
        ELSE [computed EXCEPT
                !.rendered = (AllParts \ {"export"})
                             \cup (IF export THEN {"export"} ELSE {}),
                !.marker_scale =
                   IF filtered # << >> THEN <<ScaleOf(filtered, metric)>>
                   ELSE << >>]

\* One run of main() with the widgets' values of this run.
DashRun(show_all, metric, export) ==
    /\ pc = "idle"
    /\ \E sel \in YearChoices(show_all) :
         LET start == [NotRunYet EXCEPT !.ran = TRUE,
                                        !.show_all_data = show_all,
                                        !.selected_year = sel,
                                        !.previous_year = dash.selected_year,
                                        !.remembered_project =
                                           dash.session_project,
                                        !.session_project =
                                           dash.session_project]
             \* the table of the last run that got as far as computing one
             cache == IF dash.ran /\ dash.error # "ValueError"
                      THEN <<dash.merged_data>> ELSE << >>
         IN  IF YearSpecified(sel) /\ ~IntLiteral(sel.s)
             THEN dash' = Aborted(start, "ValueError")  \* int(selected_year), line 142
             ELSE LET merged == get_merged_data(cache, electricity_df,
                                                static_df, sel)
                  IN  \E city \in CityChoices(show_all, merged) :
                        \E project \in ProjectChoices(show_all,
                                          CityFiltered(merged, city),
                                          dash.session_project) :
                          dash' = Render(start, merged, city, project,
                                         metric, export)
    /\ pc' = "ran"
    /\ UNCHANGED <<electricity_df, static_df, selected_year, merged_df>>
    /\ UNCHANGED <<session, calls, schema, charts, loader>>

\* The script has run; the page waits for the next interaction.
DashWait ==
    /\ pc = "ran"
    /\ pc' = "idle"
    /\ UNCHANGED <<electricity_df, static_df, selected_year, merged_df>>
    /\ UNCHANGED otherVars

DashNext ==
    \/ \E show_all \in BOOLEAN, metric \in ColorMetrics, export \in BOOLEAN :
            DashRun(show_all, metric, export)
    \/ DashWait

SpecDash == DashInit /\ [][DashNext]_vars

\* The rows of a table, as a set.
RowSet(table) == {table[k] : k \in 1..Len(table)}

\* C17: whatever runs came before, with whatever year or 'show all data'
\* selection, the Merged table a run shows anything from (KPIs, map, charts,
\* export all read filtered_merged) is the table of the scope selected in
\* this run, and the filtered table is made of its rows.
C17_TableOfCurrentScope ==
    (dash.ran /\ dash.rendered # {})
    => /\ dash.show_all_data => dash.selected_year = Alle
       /\ dash.merged_data =
            merge_consumption_with_static(electricity_df, static_df,
                                          dash.selected_year)
       /\ RowSet(dash.filtered_merged) \subseteq RowSet(dash.merged_data)

C17_Witness ==
    /\ dash.ran /\ "kpis" \in dash.rendered
    /\ dash.previous_year = StrScope(StrOf(2021))
    /\ dash.selected_year = StrScope(StrOf(2022))
    /\ dash.filtered_merged # << >>
    /\ dash.merged_data #
         merge_consumption_with_static(electricity_df, static_df,
                                       dash.previous_year)
    /\ dash.merged_data =
         merge_consumption_with_static(electricity_df, static_df,
                                       dash.selected_year)

\* C20: a run with a year scope selected whose filtered Merged table has rows
\* shows the map, its markers on the scale of the whole Merged table of the
\* scope, and shows the rest of the page (the export on request).
C20_MapOnGlobalScale ==
    (dash.ran /\ dash.selected_year # None /\ dash.filtered_merged # << >>)
    => /\ "map_tab" \in dash.rendered
       /\ dash.marker_scale = <<dash.scale>>
       /\ AllParts \ {"export"} \subseteq dash.rendered
       /\ dash.error = ""

(***************************************************************************)
(* The figures built from a Merged table: three charts of ChartUtils and   *)
(* the map of MapUtils, each called directly on a returned table.          *)
(***************************************************************************)
\* float subtraction and multiplication of finite numbers
Minus(x, y) == Reduce(x[1] * y[2] - y[1] * x[2], x[2] * y[2])
Times(x, y) == Reduce(x[1] * y[1], x[2] * y[2])
\* the decimal literal n/100
Hundredths(n) == Reduce(n, 100)
\* int() of a non-negative number
Trunc(x) == x[1] \div x[2]

\* nlargest(5, 'Year_total_KwH')
TopCount == 5

\* create_top_consumers_chart: the rows drawn
TopConsumersRows(merged) ==
    LET Valid(r) == /\ GtZero(r.Year_total_KwH)
                    /\ GtZero(r.kwh_per_student)
                    /\ GtZero(r.kwh_per_m2)
        valid == SelectSeq(merged, Valid)
        Ahead(k) == {j \in 1..Len(valid) :
                        \/ Less(valid[k].Year_total_KwH, valid[j].Year_total_KwH)
                        \/ (valid[j].Year_total_KwH = valid[k].Year_total_KwH
                            /\ j < k)}
    IN  {valid[k] : k \in {i \in 1..Len(valid) :
                              Cardinality(Ahead(i)) < TopCount}}

\* create_efficiency_chart_from_merged, the definition of line 455 (it
\* replaces the one of line 123, being the later one in the class body)
EfficiencyChartRows(merged) ==
    LET Valid(r) == /\ GtZero(r.Year_total_KwH)
                    /\ GtZero(r.total_HE)
                    /\ GtZero(r.kwh_per_student)
    IN  RowSet(SelectSeq(merged, Valid))

\* create_efficiency_scatter
EfficiencyScatterRows(merged) ==
    LET Valid(r) == /\ GtZero(r.Year_total_KwH)
                    /\ GtZero(r.kwh_per_m2)
                    /\ GtZero(r.kwh_per_student)
    IN  RowSet(SelectSeq(merged, Valid))

Black == [name |-> "black", rgb |-> <<0, 0, 0>>]
Green == [name |-> "green", rgb |-> <<0, 128, 0>>]
Hex(r, g, b) == [name |-> "#", rgb |-> <<r, g, b>>]

\* Mutant of Clamp: the normalized value used as it is.
ClampOff(normalized) == normalized

\* max(0, min(1, normalized))
Clamp(normalized) ==
    IF Less(normalized, Num(0)) THEN Num(0)
    ELSE IF Less(Num(1), normalized) THEN Num(1) ELSE normalized

\* The gradient for a value different from 0 and min_val < max_val.
GradientColor(efficiency_value, min_val, max_val) ==
    LET normalized == Clamp(Divide(Minus(efficiency_value, min_val),
                                   Minus(max_val, min_val)))
    IN  IF ~Less(Hundredths(33), normalized)
        THEN Hex(Trunc(Times(Divide(normalized, Hundredths(33)), Num(255))),
                 255, 0)
        ELSE IF ~Less(Hundredths(66), normalized)
        THEN LET factor == Divide(Minus(normalized, Hundredths(33)),
                                  Hundredths(33))
             IN  Hex(255,
                     Trunc(Times(Num(255),
                                 Minus(Num(1), Times(factor, Hundredths(50))))),
                     0)
        ELSE LET factor == Divide(Minus(normalized, Hundredths(66)),
                                  Hundredths(34))
             IN  Hex(255, Trunc(Times(Num(128), Minus(Num(1), factor))), 0)

\* Mutant of get_efficiency_color_gradient: the test for 0 left out.
get_efficiency_color_gradient_no_zero_test(efficiency_value, min_val, max_val) ==
    IF efficiency_value = NaN THEN Black
    ELSE IF ~Less(min_val, max_val) THEN Green
    ELSE GradientColor(efficiency_value, min_val, max_val)

get_efficiency_color_gradient(efficiency_value, min_val, max_val) ==
    IF efficiency_value = NaN \/ efficiency_value = Num(0) THEN Black
    ELSE IF ~Less(min_val, max_val) THEN Green
    ELSE GradientColor(efficiency_value, min_val, max_val)

\* create_energy_map: the scale it returns and the colour of each row's
\* marker (every row of a loaded Building table has its coordinates).
create_energy_map(merged, color_metric) ==
    LET scale == ScaleOf(merged, color_metric)
    IN  [scale |-> scale,
         markers |-> [k \in 1..Len(merged) |->
                        [row |-> merged[k],
                         color |-> get_efficiency_color_gradient(
                                      fillna(merged[k][color_metric]),
                                      scale[1], scale[2])]]]

\* The tables the figures are built from: two buildings with or without
\* capacity and area, one consumption row each.
ChartStaticTables ==
    {<<[project_name |-> "A", City |-> BuildingCity["A"],
        total_HE |-> heA, Total_BRA |-> braA],
       [project_name |-> "B", City |-> BuildingCity["B"],
        total_HE |-> heB, Total_BRA |-> braB]>> :
        heA \in {Num(0), Num(100)}, braA \in {Num(0), Num(500)},
        heB \in {Num(0), Num(100)}, braB \in {Num(0), Num(250)}}
ChartElecTables ==
    {<<[project_name |-> "A", City |-> "OSLO", Year |-> Num(2021),
        Year_total_KwH |-> a],
       [project_name |-> "B", City |-> "OSLO", Year |-> Num(2021),
        Year_total_KwH |-> b]>> :
        a \in {NaN, Num(10000)}, b \in {Num(10000), Num(30000)}}

NoFigure == [kind |-> "none", metric |-> "", rows |-> {},
             scale |-> <<Num(0), Num(0)>>, markers |-> << >>]

ChartsInit ==
    /\ electricity_df \in ChartElecTables
    /\ static_df \in ChartStaticTables
    /\ selected_year \in {Alle, StrScope(StrOf(2021))}
    /\ merged_df = merge_consumption_with_static(electricity_df, static_df,
                                                 selected_year)
    /\ pc = "returned"
    /\ charts = NoFigure
    /\ session = NotRunning /\ calls = NotRunning /\ schema = NotRunning
    /\ loader = NotRunning /\ dash = NotRunning

TopConsumersChart ==
    /\ charts' = [NoFigure EXCEPT !.kind = "top_consumers",
                                  !.rows = TopConsumersRows(merged_df)]
    /\ UNCHANGED mergeVars
    /\ UNCHANGED <<session, calls, schema, loader, dash>>

EfficiencyChart ==
    /\ charts' = [NoFigure EXCEPT !.kind = "efficiency_chart",
                                  !.rows = EfficiencyChartRows(merged_df)]
    /\ UNCHANGED mergeVars
    /\ UNCHANGED <<session, calls, schema, loader, dash>>

EfficiencyScatter ==
    /\ charts' = [NoFigure EXCEPT !.kind = "efficiency_scatter",
                                  !.rows = EfficiencyScatterRows(merged_df)]
    /\ UNCHANGED mergeVars
    /\ UNCHANGED <<session, calls, schema, loader, dash>>

EnergyMap(color_metric) ==
    /\ charts' = [NoFigure EXCEPT
                    !.kind = "map", !.metric = color_metric,
                    !.scale = create_energy_map(merged_df, color_metric).scale,
                    !.markers = create_energy_map(merged_df, color_metric).markers]
    /\ UNCHANGED mergeVars
    /\ UNCHANGED <<session, calls, schema, loader, dash>>

ChartsNext ==
    \/ TopConsumersChart
    \/ EfficiencyChart
    \/ EfficiencyScatter
    \/ \E color_metric \in ColorMetrics : EnergyMap(color_metric)

SpecCharts == ChartsInit /\ [][ChartsNext]_vars

\* A ratio that is 0.
IsZero(cell) == cell = Num(0)

\* (min, max) of the cells that are finite and above 0; (0, 0) without any.
ScaleOfCells(cells) ==
    LET pos == {c \in cells : Positive(c)}
    IN  IF pos = {} THEN <<Num(0), Num(0)>>
        ELSE <<CHOOSE x \in pos : \A y \in pos : x[1] * y[2] <= y[1] * x[2],
               CHOOSE x \in pos : \A y \in pos : x[1] * y[2] >= y[1] * x[2]>>

\* The scale does not depend on the rows that satisfy Out.
ScaleIgnores(Out(_)) ==
    charts.scale =
       ScaleOfCells({merged_df[k][charts.metric] :
                        k \in {j \in MergedRows : ~Out(merged_df[j])}})

\* C18 as stated: a row with either ratio at 0 is in none of the three
\* charts, leaves the map's scale what it is without it, and has a black
\* marker.
C18_ZeroRatioExcluded_AsStated ==
    LET NoData(r) == IsZero(r.kwh_per_student) \/ IsZero(r.kwh_per_m2)
    IN  /\ charts.kind \in {"top_consumers", "efficiency_chart",
                            "efficiency_scatter"}
            => \A r \in charts.rows : ~NoData(r)
        /\ charts.kind = "map"
            => /\ ScaleIgnores(NoData)
               /\ \A k \in 1..Len(charts.markers) :
                     NoData(charts.markers[k].row)
                       => charts.markers[k].color = Black

\* C18: a row with either ratio at 0 is neither in the top-consumers chart
\* nor in the efficiency scatter; a row with kwh_per_student at 0 is not in
\* the efficiency chart; a row whose ratio of the map's metric is 0 leaves the
\* map's scale what it is without it and has a black marker.
C18_ZeroRatioExcluded ==
    LET NoData(r) == IsZero(r.kwh_per_student) \/ IsZero(r.kwh_per_m2)
        NoMetric(r) == IsZero(r[charts.metric])
    IN  /\ charts.kind \in {"top_consumers", "efficiency_scatter"}
            => \A r \in charts.rows : ~NoData(r)
        /\ charts.kind = "efficiency_chart"
            => \A r \in charts.rows : ~IsZero(r.kwh_per_student)
        /\ charts.kind = "map"
            => /\ ScaleIgnores(NoMetric)
               /\ \A k \in 1..Len(charts.markers) :
                     NoMetric(charts.markers[k].row)
                       => charts.markers[k].color = Black

C18_Witness ==
    /\ charts.kind = "map" /\ charts.metric = "kwh_per_m2"
    /\ Len(charts.markers) = 2
    /\ IsZero(merged_df[1].kwh_per_m2) /\ Positive(merged_df[1].kwh_per_student)
    /\ Positive(merged_df[2].kwh_per_m2)
    /\ charts.markers[1].color = Black
    /\ charts.markers[2].color # Black
    /\ charts.scale = <<merged_df[2].kwh_per_m2, merged_df[2].kwh_per_m2>>

(***************************************************************************)
(* load_static_data: the Building file is read, filtered to student        *)
(* housing, cleaned, and rows without coordinates are imputed or dropped.  *)
(* A text cell is a sequence of characters.                                *)
(***************************************************************************)
MaxRawRows == 2

LowerCase == <<"g", "j", "ø", "v", "i", "k", "o", "s", "l">>
UpperCase == <<"G", "J", "Ø", "V", "I", "K", "O", "S", "L">>

\* str.upper(), one character
UpperChar(c) ==
    IF \E k \in 1..Len(LowerCase) : LowerCase[k] = c
    THEN UpperCase[CHOOSE k \in 1..Len(LowerCase) : LowerCase[k] = c]
    ELSE c

\* str.strip(): leading and trailing blanks removed
RECURSIVE StripLeft(_)
StripLeft(chars) ==
    IF chars # << >> /\ Head(chars) = " " THEN StripLeft(Tail(chars))
    ELSE chars
RECURSIVE StripRight(_)
StripRight(chars) ==
    IF chars # << >> /\ chars[Len(chars)] = " "
    THEN StripRight(SubSeq(chars, 1, Len(chars) - 1))
    ELSE chars

\* A missing text cell; .str methods leave it missing.
MissingText == <<"<NaN>">>

\* df['City'].str.upper().str.strip()
CleanCity(chars) ==
    IF chars = MissingText THEN MissingText
    ELSE StripRight(StripLeft([k \in 1..Len(chars) |-> UpperChar(chars[k])]))

Alesund == <<"Å", "L", "E", "S", "U", "N", "D">>
Gjovik == <<"G", "J", "Ø", "V", "I", "K">>
Trondheim == <<"T", "R", "O", "N", "D", "H", "E", "I", "M">>

\* city_coordinates; a coordinate is a decimal with four places
city_coordinates ==
    [c \in {Alesund, Gjovik, Trondheim} |->
        IF c = Alesund THEN <<Reduce(624722, 10000), Reduce(61495, 10000)>>
        ELSE IF c = Gjovik THEN <<Reduce(607957, 10000), Reduce(106915, 10000)>>
        ELSE <<Reduce(634305, 10000), Reduce(103951, 10000)>>]

\* A cell of a coordinate column as read from the file.
RawEmpty == [kind |-> "empty", value |-> NaN]
RawText == [kind |-> "text", value |-> NaN]
RawNumber(x) == [kind |-> "number", value |-> x]

\* pd.to_numeric(errors='coerce'): what is not a number becomes NaN
to_numeric(raw) == IF raw.kind = "number" THEN raw.value ELSE NaN

StudentHousing == "studentboliger"

RawCities ==
    {Gjovik, <<" ", "g", "j", "ø", "v", "i", "k", " ">>,
     <<"O", "s", "l", "o">>, MissingText}
RawStaticRows ==
    [project_type : {StudentHousing, "kontor"}, city : RawCities,
     lat : {RawEmpty, RawText, RawNumber(Num(60))},
     lon : {RawEmpty, RawNumber(Num(10))}]
RawStaticTables == UNION {[1..n -> RawStaticRows] : n \in 0..MaxRawRows}

\* read_csv numbers the rows from 0; the filter keeps these labels.
IndexOf(position) == position - 1

\* Lines 37-51: one row filtered in and cleaned.
CleanRow(raw, position) ==
    [idx |-> IndexOf(position), project_type |-> raw[position].project_type,
     City |-> CleanCity(raw[position].city),
     lat |-> to_numeric(raw[position].lat),
     lon |-> to_numeric(raw[position].lon)]

\* pd.isna(row['lat']) or pd.isna(row['lon'])
MissingCoordinateBoth(row) == row.lat = NaN /\ row.lon = NaN

MissingCoordinate(row) == row.lat = NaN \/ row.lon = NaN

\* (idx % 10) * 0.001
Offset(idx) == Reduce(idx % 10, 1000)

\* Lines 60-68: both coordinates are assigned when either is missing and the
\* city is in the table.
Impute(row) ==
    IF MissingCoordinate(row) /\ row.City \in DOMAIN city_coordinates
    THEN [row EXCEPT !.lat = Plus(city_coordinates[row.City][1], Offset(row.idx)),
                     !.lon = Plus(city_coordinates[row.City][2], Offset(row.idx))]
    ELSE row

load_static_data(raw) ==
    LET IsStudentHousing(r) == r.project_type = StudentHousing
        HasCoords(r) == r.lat # NaN /\ r.lon # NaN
        cleaned == [k \in 1..Len(raw) |-> CleanRow(raw, k)]
        df == SelectSeq(cleaned, IsStudentHousing)
        imputed == [k \in 1..Len(df) |-> Impute(df[k])]
    IN  SelectSeq(imputed, HasCoords)

NotLoaded(raw) == [raw |-> raw, loaded |-> FALSE, result |-> << >>]

LoadInit ==
    /\ electricity_df = << >> /\ static_df = << >>
    /\ selected_year = None /\ merged_df = << >> /\ pc = "idle"
    /\ \E raw \in RawStaticTables : loader = NotLoaded(raw)
    /\ session = NotRunning /\ calls = NotRunning /\ schema = NotRunning
    /\ charts = NotRunning /\ dash = NotRunning

LoadStatic ==
    /\ ~loader.loaded
    /\ loader' = [loader EXCEPT !.loaded = TRUE,
                                !.result = load_static_data(loader.raw)]
    /\ UNCHANGED mergeVars
    /\ UNCHANGED <<session, calls, schema, charts, dash>>

\* The cache is cleared; the next run reads the file again.
LoadAgain ==
    /\ loader.loaded
    /\ loader' = NotLoaded(loader.raw)
    /\ UNCHANGED mergeVars
    /\ UNCHANGED <<session, calls, schema, charts, dash>>

LoadNext == LoadStatic \/ LoadAgain

SpecLoad == LoadInit /\ [][LoadNext]_vars

\* The source rows of student housing, by position in the file.
StudentRows ==
    {k \in 1..Len(loader.raw) : loader.raw[k].project_type = StudentHousing}
\* The cell holds a number.
Present(raw) == raw.kind = "number"
\* The row's city, case and surrounding blanks aside, is one of the three.
InKnownCity(k) ==
    CleanCity(loader.raw[k].city) \in {Alesund, Gjovik, Trondheim}
\* The returned rows that come from the source row at position k.
ReturnedFrom(k) ==
    {j \in 1..Len(loader.result) : loader.result[j].idx = k - 1}

\* C19: every returned row has a latitude and a longitude; a student-housing
\* row with a coordinate missing is returned, with coordinates, when its city
\* is one of the three and is not returned otherwise; a student-housing row
\* with both coordinates is returned.
C19_CoordinatesComplete ==
    loader.loaded
    => /\ \A j \in 1..Len(loader.result) :
             /\ Defined(loader.result[j].lat)
             /\ Defined(loader.result[j].lon)
       /\ \A k \in StudentRows :
             /\ Cardinality(ReturnedFrom(k)) <= 1
             /\ (Present(loader.raw[k].lat) /\ Present(loader.raw[k].lon))
                   => ReturnedFrom(k) # {}
             /\ (~(Present(loader.raw[k].lat) /\ Present(loader.raw[k].lon))
                   /\ InKnownCity(k))
                   => ReturnedFrom(k) # {}
             /\ (~(Present(loader.raw[k].lat) /\ Present(loader.raw[k].lon))
                   /\ ~InKnownCity(k))
                   => ReturnedFrom(k) = {}

C19_Witness ==
    /\ loader.loaded
    /\ Len(loader.raw) = 2
    /\ StudentRows = {1, 2}
    /\ Present(loader.raw[1].lat) /\ ~Present(loader.raw[1].lon)
    /\ loader.raw[1].city # Gjovik /\ InKnownCity(1)
    /\ ~Present(loader.raw[2].lat) /\ ~InKnownCity(2)
    /\ Len(loader.result) = 1
    /\ loader.result[1].idx = 0
    /\ Defined(loader.result[1].lat) /\ Defined(loader.result[1].lon)

(***************************************************************************)
(* A longer Building file, of few kinds of row: the offset of an imputed   *)
(* coordinate depends on the row's index modulo 10.                        *)
(***************************************************************************)
MaxFileRows == 11

\* Student housing without coordinates in one of two known cities, or a row
\* of another project type.
LongFileRows ==
    [project_type : {StudentHousing}, city : {Gjovik, Trondheim},
     lat : {RawEmpty}, lon : {RawEmpty}]
    \cup [project_type : {"kontor"}, city : {Gjovik},
          lat : {RawEmpty}, lon : {RawEmpty}]
\* Files with few rows to impute among rows of another type.
MaxImputedRows == 2
LongFiles ==
    {raw \in UNION {[1..n -> LongFileRows] : n \in 0..MaxFileRows} :
        Cardinality({k \in 1..Len(raw) :
                        raw[k].project_type = StudentHousing})
          <= MaxImputedRows}

LoadLongInit ==
    /\ electricity_df = << >> /\ static_df = << >>
    /\ selected_year = None /\ merged_df = << >> /\ pc = "idle"
    /\ \E raw \in LongFiles : loader = NotLoaded(raw)
    /\ session = NotRunning /\ calls = NotRunning /\ schema = NotRunning
    /\ charts = NotRunning /\ dash = NotRunning

SpecLoadLong == LoadLongInit /\ [][LoadNext]_vars

\* The source row of a returned row.
SourceOf(j) == loader.raw[loader.result[j].idx + 1]
\* The source row lacks a coordinate.
LacksCoordinate(raw) == ~Present(raw.lat) \/ ~Present(raw.lon)

\* C21: two different returned rows of the same city whose source rows both
\* lacked coordinates have different (lat, lon) pairs, whatever their
\* indices.
C21_ImputedPairsDiffer ==
    loader.loaded
    => \A j1, j2 \in 1..Len(loader.result) :
          (/\ j1 # j2
           /\ loader.result[j1].City = loader.result[j2].City
           /\ LacksCoordinate(SourceOf(j1))
           /\ LacksCoordinate(SourceOf(j2)))
          => <<loader.result[j1].lat, loader.result[j1].lon>>
               # <<loader.result[j2].lat, loader.result[j2].lon>>

\* C22: a coordinate that the source row has is returned as it is, also
\* when the row's other coordinate is missing.
C22_PresentCoordinateKept ==
    loader.loaded
    => \A j \in 1..Len(loader.result) :
          /\ Present(SourceOf(j).lat)
               => loader.result[j].lat = SourceOf(j).lat.value
          /\ Present(SourceOf(j).lon)
               => loader.result[j].lon = SourceOf(j).lon.value

(***************************************************************************)
(* The dashboard's filters, remembered project and headline figures.       *)
(***************************************************************************)
\* The run got as far as preparing the tables of the charts (lines 113-139).
TablesPrepared == dash.ran /\ "kpis" \in dash.rendered

SpecificYear(sel) == sel.kind = "str" /\ sel # Alle

\* C23: with a specific year selected, every temperature record and every
\* electricity record of the tables prepared for the charts has that year,
\* whatever city and project are selected.
C23_RecordsOfSelectedYear ==
    (TablesPrepared /\ SpecificYear(dash.selected_year))
    => /\ \A r \in RowSet(dash.filtered_electricity) :
             r.Year = Num(IntOf(dash.selected_year))
       /\ \A r \in RowSet(dash.filtered_temp) :
             r.Year = Num(IntOf(dash.selected_year))

\* The projects of the Merged rows of the city selected in the run.
ProjectsOfCity ==
    {r.project_name :
        r \in RowSet(CityFiltered(dash.merged_data, dash.selected_city))}

\* C24: after any sequence of runs, the project a run filters by is 'Alle' or
\* a project of the Merged rows of the city selected in that run; a run that
\* finds a remembered project that is not among them filters by 'Alle'; and in
\* 'show all data' mode year, city and project are all 'Alle'.
C24_ProjectOfCurrentCity ==
    dash.ran
    => /\ dash.selected_project \in {AlleLabel} \cup ProjectsOfCity
       /\ (/\ ~dash.show_all_data
           /\ dash.remembered_project \notin {AlleLabel} \cup ProjectsOfCity)
          => dash.selected_project = AlleLabel
       /\ dash.show_all_data
          => /\ dash.selected_year = Alle
             /\ dash.selected_city = AlleLabel
             /\ dash.selected_project = AlleLabel

\* A project of one city was remembered and the run is on another city.
C24_Witness ==
    /\ dash.ran /\ ~dash.show_all_data
    /\ dash.remembered_project = "A"
    /\ dash.selected_city = "BERGEN"
    /\ "B" \in ProjectsOfCity
    /\ dash.selected_project = AlleLabel
    /\ dash.session_project = AlleLabel

\* The consumption table without its rows of 2020.
Without2020(electricity) ==
    LET Not2020(r) == r.Year # Num(2020) IN SelectSeq(electricity, Not2020)

\* C25: in a single-year run and in a 'show all data' run alike, 2020 is not
\* the selected year and the totals of the Merged table the run displays are
\* those the table has without the consumption rows of 2020.
C25_Year2020LeftOut ==
    TablesPrepared
    => /\ dash.selected_year # StrScope(StrOf(2020))
       /\ LET without == merge_consumption_with_static(
                             Without2020(electricity_df), static_df,
                             dash.selected_year)
          IN  /\ Len(dash.merged_data) = Len(without)
              /\ \A k \in 1..Len(without) :
                    dash.merged_data[k].Year_total_KwH
                       = without[k].Year_total_KwH

\* C26: the headline figures of a run are the total consumption of the
\* filtered Merged rows divided by their number of students (their floor
\* area) when that is > 0, and 0 otherwise, an empty filtered table included;
\* neither is ever the result of a division by zero.
C26_KpisNeverDivideByZero ==
    TablesPrepared
    => LET total_consumption ==
               ColumnSum(dash.filtered_merged, "Year_total_KwH")
           total_students == ColumnSum(dash.filtered_merged, "total_HE")
           total_area == ColumnSum(dash.filtered_merged, "Total_BRA")
       IN  /\ dash.avg_consumption_per_student \notin {NaN, Inf, NegInf}
           /\ dash.avg_consumption_per_m2 \notin {NaN, Inf, NegInf}
           /\ dash.avg_consumption_per_student =
                 IF GtZero(total_students)
                 THEN Divide(total_consumption, total_students) ELSE Num(0)
           /\ dash.avg_consumption_per_m2 =
                 IF GtZero(total_area)
                 THEN Divide(total_consumption, total_area) ELSE Num(0)
           /\ dash.filtered_merged = << >>
              => /\ dash.avg_consumption_per_student = Num(0)
                 /\ dash.avg_consumption_per_m2 = Num(0)

\* Rows with consumption whose students are missing, floor area present.
C26_Witness ==
    /\ TablesPrepared
    /\ dash.filtered_merged # << >>
    /\ GtZero(ColumnSum(dash.filtered_merged, "Year_total_KwH"))
    /\ ColumnSum(dash.filtered_merged, "total_HE") = Num(0)
    /\ dash.avg_consumption_per_student = Num(0)
    /\ dash.avg_consumption_per_m2 = Num(20)

(***************************************************************************)
(* ChartUtils.merge_temp_consumption_data: the temperature records joined  *)
(* with the monthly consumption of their city and year.                    *)
(***************************************************************************)
MaxTempRows == 2
MaxMonthlyRows == 2

\* month number -> consumption column (the file's own spellings)
month_col_map ==
    <<"Jan_KwH", "Feb_KwH", "Mar_KwH", "Apr__KwH", "may__KwH", "Jun_KwH",
      "Jul_KwH", "Aug_KwH", "Sep_KwH", "Oct_KwH", "Nov_KwH", "Dec_KwH">>

\* Mutant of CityElec: the rows of the city, of any year.
CityElecAnyYear(electricity, city, year) ==
    LET Matching(r) == r.City = city IN SelectSeq(electricity, Matching)

\* electricity_df[(City == city) & (Year == year)]; a missing year equals none
CityElec(electricity, city, year) ==
    LET Matching(r) == r.City = city /\ notna(year) /\ r.Year = year
    IN  SelectSeq(electricity, Matching)

\* The rows one temperature record adds to correlation_data: none or one.
CorrelationRows(temp_row, electricity) ==
    LET city_elec == CityElec(electricity, temp_row.City, temp_row.Year)
        month == temp_row.Month
    IN  IF city_elec = << >> THEN << >>
        ELSE IF month \notin DOMAIN month_col_map THEN << >>
        ELSE IF month_col_map[month] \notin DOMAIN city_elec[1] THEN << >>
        ELSE <<[City |-> temp_row.City, Year |-> temp_row.Year,
                Month |-> month, Time |-> temp_row.Time,
                Temperature |-> temp_row.Temperature,
                HDD_17 |-> temp_row.HDD_17,
                Monthly_HDD |-> temp_row.Monthly_HDD,
                Monthly_Consumption |->
                   AggSum([k \in 1..Len(city_elec) |->
                              city_elec[k][month_col_map[month]]])]>>

\* the loop over temp_df.iterrows()
RECURSIVE CorrelationData(_, _)
CorrelationData(temp_df, electricity) ==
    IF temp_df = << >> THEN << >>
    ELSE CorrelationRows(Head(temp_df), electricity)
         \o CorrelationData(Tail(temp_df), electricity)

\* The columns the loop reads of every temperature record, and those it
\* reads of a record it emits a row for; a missing one is a KeyError.
ColumnsRead == {"City", "Year", "Month"}
ColumnsEmitted == {"Time", "Temperature", "HDD_17", "Monthly_HDD"}
RaisesInside(temp_df, electricity) ==
    /\ temp_df # << >>
    /\ \/ ~(ColumnsRead \subseteq DOMAIN temp_df[1])
       \/ /\ \E k \in 1..Len(temp_df) :
                CorrelationRows([City |-> temp_df[k].City,
                                 Year |-> temp_df[k].Year,
                                 Month |-> temp_df[k].Month,
                                 Time |-> "", Temperature |-> NaN,
                                 HDD_17 |-> NaN, Monthly_HDD |-> NaN],
                                electricity) # << >>
          /\ ~(ColumnsEmitted \subseteq DOMAIN temp_df[1])

\* The whole body is under try, and a bare except returns pd.DataFrame().
merge_temp_consumption_data(temp_df, electricity) ==
    IF RaisesInside(temp_df, electricity)
    THEN [raised |-> FALSE, table |-> << >>]
    ELSE [raised |-> FALSE, table |-> CorrelationData(temp_df, electricity)]

\* The tables the function is called on.
TempMonths == {1, 4, 5, 13}
TempRows ==
    {[City |-> c, Year |-> Num(y), Month |-> m, Time |-> "jan.21",
      Temperature |-> Num(3), HDD_17 |-> Num(14), Monthly_HDD |-> Num(434)] :
        c \in {"OSLO", "BERGEN"}, y \in {2021, 2022}, m \in TempMonths}
\* a file without its Month column, and one without Monthly_HDD
TempRowsBroken ==
    {[City |-> "OSLO", Year |-> Num(2021), Time |-> "jan.21",
      Temperature |-> Num(3), HDD_17 |-> Num(14), Monthly_HDD |-> Num(434)],
     [City |-> "OSLO", Year |-> Num(2021), Month |-> 1, Time |-> "jan.21",
      Temperature |-> Num(3), HDD_17 |-> Num(14)]}
TempTables ==
    UNION {[1..n -> TempRows] : n \in 0..MaxTempRows}
    \cup {<<r>> : r \in TempRowsBroken}
MonthlyRows ==
    {[project_name |-> "A", City |-> c, Year |-> Num(y), Jan_KwH |-> jan,
      Apr__KwH |-> Num(50), Year_total_KwH |-> Num(10000)] :
        c \in {"OSLO", "BERGEN"}, y \in {2021, 2022}, jan \in {NaN, Num(100)}}
MonthlyTables == UNION {[1..n -> MonthlyRows] : n \in 0..MaxMonthlyRows}

NotMerged(temp_df) ==
    [temp_df |-> temp_df, returned |-> FALSE, raised |-> FALSE,
     table |-> << >>]

CorrInit ==
    /\ electricity_df \in MonthlyTables
    /\ \E temp_df \in TempTables : charts = NotMerged(temp_df)
    /\ static_df = << >>
    /\ selected_year = None
    /\ merged_df = << >>
    /\ pc = "idle"
    /\ session = NotRunning /\ calls = NotRunning /\ schema = NotRunning
    /\ loader = NotRunning /\ dash = NotRunning

MergeTempConsumption ==
    /\ ~charts.returned
    /\ LET out == merge_temp_consumption_data(charts.temp_df, electricity_df)
       IN  charts' = [charts EXCEPT !.returned = TRUE,
                                    !.raised = out.raised,
                                    !.table = out.table]
    /\ UNCHANGED mergeVars
    /\ UNCHANGED <<session, calls, schema, loader, dash>>

MergeTempAgain ==
    /\ charts.returned
    /\ charts' = NotMerged(charts.temp_df)
    /\ UNCHANGED mergeVars
    /\ UNCHANGED <<session, calls, schema, loader, dash>>

CorrNext == MergeTempConsumption \/ MergeTempAgain

SpecCorr == CorrInit /\ [][CorrNext]_vars

\* The records of a table with a given city, year and month.
WithKey(table, city, year, month) ==
    {k \in 1..Len(table) :
        /\ "Month" \in DOMAIN table[k]
        /\ table[k].City = city /\ table[k].Year = year
        /\ table[k].Month = month}

\* The electricity rows of a city and year.
SameCityYear(city, year) ==
    {k \in 1..Len(electricity_df) :
        electricity_df[k].City = city /\ electricity_df[k].Year = year}

\* The sum of a column over a set of electricity rows, missing cells skipped.
RECURSIVE SumOver(_, _)
SumOver(rows, column) ==
    IF rows = {} THEN Num(0)
    ELSE LET k == CHOOSE j \in rows : TRUE
             cell == electricity_df[k][column]
         IN  IF notna(cell) THEN Plus(cell, SumOver(rows \ {k}, column))
             ELSE SumOver(rows \ {k}, column)

\* C27: the call returns, never raises; the returned table has at most one
\* row per temperature record of the same city, year and month, each row has
\* an electricity row of its city and year, and its Monthly_Consumption is the
\* sum of its month's column over all of them; a call that fails inside
\* returns an empty table.
C27_OneRowPerMatchedRecord ==
    charts.returned
    => /\ ~charts.raised
       /\ \A j \in 1..Len(charts.table) :
             LET row == charts.table[j]
             IN  /\ Cardinality(WithKey(charts.table, row.City, row.Year,
                                        row.Month))
                       <= Cardinality(WithKey(charts.temp_df, row.City,
                                              row.Year, row.Month))
                 /\ SameCityYear(row.City, row.Year) # {}
                 /\ row.Monthly_Consumption =
                       SumOver(SameCityYear(row.City, row.Year),
                               month_col_map[row.Month])
       /\ RaisesInside(charts.temp_df, electricity_df)
          => charts.table = << >>

\* Two electricity rows of one city and year summed for a January record,
\* a row of another year left out.
C27_Witness ==
    /\ charts.returned
    /\ Len(charts.table) = 1
    /\ charts.table[1].Monthly_Consumption = Num(100)
    /\ Len(electricity_df) = 2
    /\ electricity_df[1].City = electricity_df[2].City
    /\ electricity_df[1].Year # electricity_df[2].Year
    /\ electricity_df[1].Jan_KwH = Num(100)
    /\ electricity_df[2].Jan_KwH = Num(100)

(***************************************************************************)
(* MapUtils.get_efficiency_color_gradient called on a scale, value after   *)
(* value.                                                                  *)
(***************************************************************************)
MaxValue == 35

\* The values a marker is coloured for (every third number from -3, so that the
\* bands' ends 33 and 66 of the scale 0..100 are among them) and the ends of
\* the scale.
GradientValues == {NaN} \cup {Num(3 * n - 3) : n \in 0..MaxValue}
GradientScales == {Num(0), Num(50), Num(100)}

NoColour(min_val, max_val) ==
    [min_val |-> min_val, max_val |-> max_val, called |-> FALSE,
     efficiency_value |-> NaN, color |-> Black,
     compared |-> FALSE, value_before |-> NaN, color_before |-> Black]

GradientInit ==
    /\ \E min_val \in GradientScales, max_val \in GradientScales :
          charts = NoColour(min_val, max_val)
    /\ electricity_df = << >>
    /\ static_df = << >>
    /\ selected_year = None
    /\ merged_df = << >>
    /\ pc = "idle"
    /\ session = NotRunning /\ calls = NotRunning /\ schema = NotRunning
    /\ loader = NotRunning /\ dash = NotRunning

\* One call; the call before it is kept for comparison.
GradientCall(efficiency_value) ==
    /\ charts' = [charts EXCEPT
                    !.called = TRUE,
                    !.efficiency_value = efficiency_value,
                    !.color = get_efficiency_color_gradient(
                                 efficiency_value, charts.min_val,
                                 charts.max_val),
                    !.compared = charts.called,
                    !.value_before = charts.efficiency_value,
                    !.color_before = charts.color]
    /\ UNCHANGED mergeVars
    /\ UNCHANGED <<session, calls, schema, loader, dash>>

GradientNext == \E efficiency_value \in GradientValues :
                    GradientCall(efficiency_value)

SpecGradient == GradientInit /\ [][GradientNext]_vars

\* A value the gradient is for: neither missing nor 0.
Coloured(value) == value \notin {NaN, Num(0)}

\* What the claim says of a call with min_val < max_val and a non-zero value.
OnTheGradient ==
    (/\ charts.called
     /\ Less(charts.min_val, charts.max_val)
     /\ Coloured(charts.efficiency_value))
    => /\ \A i \in 1..3 : charts.color.rgb[i] \in 0..255
       /\ ~Less(charts.min_val, charts.efficiency_value)
          => charts.color = Hex(0, 255, 0)
       /\ ~Less(charts.efficiency_value, charts.max_val)
          => charts.color = Hex(255, 0, 0)
       /\ (/\ charts.compared
           /\ Coloured(charts.value_before)
           /\ ~Less(charts.efficiency_value, charts.value_before))
          => /\ charts.color_before.rgb[1] <= charts.color.rgb[1]
             /\ charts.color_before.rgb[2] >= charts.color.rgb[2]

\* C28 as stated: on a scale with min_val < max_val a non-zero value gets
\* channels in 0..255, #00ff00 at or below min_val, #ff0000 at or above
\* max_val, red never decreasing and green never increasing with the value;
\* with min_val >= max_val the colour is 'green'.
C28_GreenToRed_AsStated ==
    /\ OnTheGradient
    /\ (charts.called /\ ~Less(charts.min_val, charts.max_val))
       => charts.color = Green

\* C28, amended: as above, and with min_val >= max_val the colour is 'green'
\* for a value that is neither 0 nor missing; a value that is 0 or missing
\* is 'black' on every scale.
C28_GreenToRed ==
    /\ OnTheGradient
    /\ (/\ charts.called
        /\ ~Less(charts.min_val, charts.max_val)
        /\ Coloured(charts.efficiency_value))
       => charts.color = Green
    /\ (charts.called /\ ~Coloured(charts.efficiency_value))
       => charts.color = Black

\* A value of the middle band after one of the first band, on the scale
\* 0..100: red went up to 255 and green went down.
C28_Witness ==
    /\ charts.called /\ charts.compared
    /\ charts.min_val = Num(0) /\ charts.max_val = Num(100)
    /\ charts.value_before = Num(21)
    /\ charts.efficiency_value = Num(66)
    /\ charts.color_before = Hex(162, 255, 0)
    /\ charts.color = Hex(255, 127, 0)

====
